---------------------------- MODULE Spec2Model ----------------------------
(***************************************************************************)
(* The object placement pipeline of Roam-map-generator: createGrid,        *)
(* calculateHeightAndSlope, generatePlacementMasks with its suitability    *)
(* scoring and its four distribution strategies.                           *)
(*                                                                         *)
(* Numbers of the program are JavaScript doubles.  They are modelled as    *)
(* exact rationals <<n, d>> in lowest terms with d > 0; <<0, 0>> stands    *)
(* for NaN / undefined, with which every comparison is false, as in        *)
(* JavaScript.  Math.sqrt is taken to three decimals (SqrtScale).          *)
(* Math.random() is a nondeterministic value of [0, 1).                    *)
(***************************************************************************)
EXTENDS Integers, Sequences, FiniteSets, TLC

(***************************************************************************)
(* Bounds of the model.                                                    *)
(***************************************************************************)
GridSize == 2

MaxRequests == 2

(***************************************************************************)
(* Rational arithmetic.                                                    *)
(***************************************************************************)
RECURSIVE Gcd(_, _)
Gcd(a, b) == IF b = 0 THEN a ELSE Gcd(b, a % b)

Abs(n) == IF n < 0 THEN -n ELSE n

NaN == <<0, 0>>

IsNaN(q) == q[2] = 0

Rat(n, d) ==
  IF d = 0 THEN NaN
  ELSE LET g == Gcd(Abs(n), Abs(d))
           s == IF d < 0 THEN -1 ELSE 1
       IN  <<(s * n) \div g, (s * d) \div g>>

Zero == <<0, 1>>

One == <<1, 1>>

RAdd(p, q) ==
  IF IsNaN(p) \/ IsNaN(q) THEN NaN
  ELSE LET g == Gcd(p[2], q[2])
       IN  Rat(p[1] * (q[2] \div g) + q[1] * (p[2] \div g), (p[2] \div g) * q[2])

RNeg(p) == IF IsNaN(p) THEN NaN ELSE <<-p[1], p[2]>>

RSub(p, q) == RAdd(p, RNeg(q))

RMul(p, q) ==
  IF IsNaN(p) \/ IsNaN(q) THEN NaN
  ELSE LET g1 == Gcd(Abs(p[1]), q[2])
           g2 == Gcd(Abs(q[1]), p[2])
       IN  Rat((p[1] \div g1) * (q[1] \div g2), (p[2] \div g2) * (q[2] \div g1))

\* JavaScript division; 0/0 is NaN (x/0 with x # 0 does not occur in the model).
RDiv(p, q) ==
  IF IsNaN(p) \/ IsNaN(q) \/ q[1] = 0 THEN NaN
  ELSE RMul(p, Rat(q[2], q[1]))

RLess(p, q) == ~IsNaN(p) /\ ~IsNaN(q) /\ p[1] * q[2] < q[1] * p[2]

RLeq(p, q) == ~IsNaN(p) /\ ~IsNaN(q) /\ p[1] * q[2] <= q[1] * p[2]

RGreater(p, q) == RLess(q, p)

RGeq(p, q) == RLeq(q, p)

RMin(p, q) == IF RLess(q, p) THEN q ELSE p

RFloor(q) == q[1] \div q[2]

RCeil(q) == -((-q[1]) \div q[2])

RSquare(q) == RMul(q, q)

RECURSIVE IsqrtBetween(_, _, _)
IsqrtBetween(v, lo, hi) ==
  IF lo >= hi THEN lo
  ELSE LET mid == (lo + hi + 1) \div 2
       IN  IF mid * mid <= v THEN IsqrtBetween(v, mid, hi)
           ELSE IsqrtBetween(v, lo, mid - 1)

SqrtScale == 1000

\* Math.sqrt of a rational q >= 0 (q < 2000), rounded down to 1/SqrtScale.
\* The whole and the fractional part of q are scaled apart, to stay within
\* TLC's integers.
Sqrt(q) ==
  IF IsNaN(q) THEN NaN
  ELSE Rat(IsqrtBetween((q[1] \div q[2]) * SqrtScale * SqrtScale
                          + ((q[1] % q[2]) * SqrtScale * SqrtScale) \div q[2],
                        0, 46340), SqrtScale)

(***************************************************************************)
(* gridGenerator.js: createGrid and the grid's helper methods.  A cell is  *)
(* referred to by its row-major index gridY * gridSize + gridX in          *)
(* grid.cells; Null stands for JavaScript's null.                          *)
(***************************************************************************)
Null == -1

Half == Rat(1, 2)

NoProperties ==
  [analyzed |-> FALSE, height |-> NaN, minHeight |-> NaN, maxHeight |-> NaN,
   slope |-> NaN, slopes |-> <<>>, terrainFeatures |-> <<>>]

NewCell(x, y, cellWidth, cellHeight) ==
  [gridX |-> x,
   gridY |-> y,
   x |-> RMul(Rat(x, 1), cellWidth),
   y |-> RMul(Rat(y, 1), cellHeight),
   width |-> cellWidth,
   height |-> cellHeight,
   centerX |-> RMul(RAdd(Rat(x, 1), Half), cellWidth),
   centerY |-> RMul(RAdd(Rat(y, 1), Half), cellHeight),
   properties |-> NoProperties,
   suitability |-> <<>>]

createGrid(mapWidth, mapHeight, gridSize) ==
  LET cellWidth == Rat(mapWidth, gridSize)
      cellHeight == Rat(mapHeight, gridSize)
  IN  [width |-> mapWidth,
       height |-> mapHeight,
       gridSize |-> gridSize,
       cellWidth |-> cellWidth,
       cellHeight |-> cellHeight,
       cells |-> [i \in (IF gridSize > 0 THEN 0 .. (gridSize * gridSize - 1) ELSE {}) |->
                    NewCell(i % gridSize, i \div gridSize, cellWidth, cellHeight)]]

\* getCellByIndices testing only that the index lies in the array, so that
\* gridX = gridSize lands in the next row: the variant C15's formula must
\* tell apart.
getCellByIndicesIndexCheck(g, gridX, gridY) ==
  IF gridY * g.gridSize + gridX \in DOMAIN g.cells
  THEN gridY * g.gridSize + gridX
  ELSE Null

getCellByIndices(g, gridX, gridY) ==
  IF gridX >= 0 /\ gridX < g.gridSize /\ gridY >= 0 /\ gridY < g.gridSize
  THEN gridY * g.gridSize + gridX
  ELSE Null

\* getCellAt with <= gridSize for the upper bounds: the variant C17's
\* formula must tell apart.
getCellAtInclusive(g, x, y) ==
  LET gridX == RFloor(RDiv(x, g.cellWidth))
      gridY == RFloor(RDiv(y, g.cellHeight))
  IN  IF gridX >= 0 /\ gridX <= g.gridSize /\ gridY >= 0 /\ gridY <= g.gridSize
      THEN gridY * g.gridSize + gridX
      ELSE Null

getCellAt(g, x, y) ==
  LET gridX == RFloor(RDiv(x, g.cellWidth))
      gridY == RFloor(RDiv(y, g.cellHeight))
  IN  IF gridX >= 0 /\ gridX < g.gridSize /\ gridY >= 0 /\ gridY < g.gridSize
      THEN gridY * g.gridSize + gridX
      ELSE Null

NeighborDirections ==
  << <<-1, -1>>, <<0, -1>>, <<1, -1>>,
     <<-1, 0>>,             <<1, 0>>,
     <<-1, 1>>,  <<0, 1>>,  <<1, 1>> >>

\* The sequence s without its Null entries.
NonNull(s) == SelectSeq(s, LAMBDA c : c # Null)

getNeighbors(g, i) ==
  NonNull([k \in 1 .. Len(NeighborDirections) |->
             getCellByIndices(g, g.cells[i].gridX + NeighborDirections[k][1],
                                 g.cells[i].gridY + NeighborDirections[k][2])])

\* getCellsInRadius with the box measured in cell widths only
\* (ceil(radius / cellWidth)): the variant C16's formula must tell apart.
getCellsInRadiusByWidth(g, centerX, centerY, radius) ==
  LET centerGridX == RFloor(RDiv(centerX, g.cellWidth))
      centerGridY == RFloor(RDiv(centerY, g.cellHeight))
      radiusInCells == RCeil(RDiv(radius, g.cellWidth))
      side == 2 * radiusInCells + 1
      Probe(k) ==
        LET dy == ((k - 1) \div side) - radiusInCells
            dx == ((k - 1) % side) - radiusInCells
            gridX == centerGridX + dx
            gridY == centerGridY + dy
            cellCenterX == RMul(RAdd(Rat(gridX, 1), Half), g.cellWidth)
            cellCenterY == RMul(RAdd(Rat(gridY, 1), Half), g.cellHeight)
            distance == Sqrt(RAdd(RSquare(RSub(cellCenterX, centerX)),
                                  RSquare(RSub(cellCenterY, centerY))))
        IN  IF gridX >= 0 /\ gridX < g.gridSize /\ gridY >= 0 /\ gridY < g.gridSize
               /\ RLeq(distance, radius)
            THEN getCellByIndices(g, gridX, gridY)
            ELSE Null
  IN  IF side < 1 THEN <<>> ELSE NonNull([k \in 1 .. side * side |-> Probe(k)])

getCellsInRadius(g, centerX, centerY, radius) ==
  LET centerGridX == RFloor(RDiv(centerX, g.cellWidth))
      centerGridY == RFloor(RDiv(centerY, g.cellHeight))
      radiusInCells == RCeil(RDiv(radius, RMin(g.cellWidth, g.cellHeight)))
      side == 2 * radiusInCells + 1
      Probe(k) ==
        LET dy == ((k - 1) \div side) - radiusInCells
            dx == ((k - 1) % side) - radiusInCells
            gridX == centerGridX + dx
            gridY == centerGridY + dy
            cellCenterX == RMul(RAdd(Rat(gridX, 1), Half), g.cellWidth)
            cellCenterY == RMul(RAdd(Rat(gridY, 1), Half), g.cellHeight)
            distance == Sqrt(RAdd(RSquare(RSub(cellCenterX, centerX)),
                                  RSquare(RSub(cellCenterY, centerY))))
        IN  IF gridX >= 0 /\ gridX < g.gridSize /\ gridY >= 0 /\ gridY < g.gridSize
               /\ RLeq(distance, radius)
            THEN getCellByIndices(g, gridX, gridY)
            ELSE Null
  IN  IF side < 1 THEN <<>> ELSE NonNull([k \in 1 .. side * side |-> Probe(k)])

(***************************************************************************)
(* objectDefinitions.js: the rule table.  Only the fields the placement    *)
(* code reads are kept: placementRules.maxSlope / minHeight / maxHeight,   *)
(* defaultDistribution, priority, and each subtype's customRules, given    *)
(* as the set of flags that are set.  waterObject declares no maxSlope:    *)
(* reading it gives undefined (NaN here).                                  *)
(***************************************************************************)
Pct(n) == Rat(n, 100)

objectDefinitions ==
  [tree |->
     [placementRules |-> [maxSlope |-> Pct(15), minHeight |-> Pct(5), maxHeight |-> Pct(80)],
      defaultDistribution |-> "natural",
      priority |-> 2,
      subtypes |-> [oak |-> {},
                    pine |-> {"preferHigherElevation"},
                    palm |-> {"preferLowerElevation", "preferBeaches"}]],
   rock |->
     [placementRules |-> [maxSlope |-> Pct(30), minHeight |-> Pct(0), maxHeight |-> Pct(100)],
      defaultDistribution |-> "random",
      priority |-> 3,
      subtypes |-> [rock |-> {},
                    boulder |-> {"preferHigherElevation", "preferSteepSlopes"}]],
   building |->
     [placementRules |-> [maxSlope |-> Pct(5), minHeight |-> Pct(10), maxHeight |-> Pct(50)],
      defaultDistribution |-> "clustered",
      priority |-> 1,
      subtypes |-> [house |-> {},
                    village |-> {"requireFlatArea", "requireCluster", "preferLowElevation"},
                    town |-> {"requireFlatArea", "requireCluster", "preferLowElevation",
                              "requireLargerArea"},
                    city |-> {"requireFlatArea", "requireCluster", "preferLowElevation",
                              "requireLargerArea", "requireWaterAccess"},
                    farm |-> {"requireVeryFlatArea", "preferLowElevation"}]],
   waterObject |->
     [placementRules |-> [maxSlope |-> NaN, minHeight |-> Pct(0), maxHeight |-> Pct(20)],
      defaultDistribution |-> "water",
      priority |-> 2,
      subtypes |-> [boat |-> {"requireDeepWater"},
                    dock |-> {"requireWaterEdge", "requireProximityToBuildings"}]],
   vegetation |->
     [placementRules |-> [maxSlope |-> Pct(20), minHeight |-> Pct(5), maxHeight |-> Pct(70)],
      defaultDistribution |-> "natural",
      priority |-> 4,
      subtypes |-> [bush |-> {},
                    grass |-> {"canPlaceInLargeGroups"},
                    flower |-> {"canPlaceInLargeGroups", "preferSpecificElevationRange"}]]]

\* objectDefinitions[type] is defined
HasDefinition(type) == type \in DOMAIN objectDefinitions

\* objectDef.subtypes[objectData.subType]?.customRules || {}
SubTypeRules(objectDef, subType) ==
  IF subType \in DOMAIN objectDef.subtypes THEN objectDef.subtypes[subType] ELSE {}

(***************************************************************************)
(* terrainAnalyzer.js.  A height map is [width, height, data], data being  *)
(* the row-major array of heights of objectPlacementGenerator.loadHeightMap*)
(***************************************************************************)
\* heightMap.getHeight(x, y): data[floor(y) * width + floor(x)] || 0
getHeight(hm, x, y) ==
  LET idx == RFloor(y) * hm.width + RFloor(x)
  IN  IF idx \in DOMAIN hm.data /\ ~IsNaN(hm.data[idx]) THEN hm.data[idx] ELSE Zero

sampleCount == 5

\* samples.reduce((sum, h) => sum + h, 0) over the first n samples
RECURSIVE SumSeq(_, _)
SumSeq(s, n) == IF n = 0 THEN Zero ELSE RAdd(SumSeq(s, n - 1), s[n])

\* Math.min(...samples) over the first n samples
RECURSIVE MinSeq(_, _)
MinSeq(s, n) ==
  IF n = 1 THEN s[1]
  ELSE LET m == MinSeq(s, n - 1) IN IF RLess(s[n], m) THEN s[n] ELSE m

\* Math.max(...samples) over the first n samples
RECURSIVE MaxSeq(_, _)
MaxSeq(s, n) ==
  IF n = 1 THEN s[1]
  ELSE LET m == MaxSeq(s, n - 1) IN IF RGreater(s[n], m) THEN s[n] ELSE m

\* The sampleCount x sampleCount heights sampled inside a cell, sy outermost
\* (<<>> \o ... makes the sequence explicit).
Samples(hm, cell) ==
  <<>> \o
  [k \in 1 .. sampleCount * sampleCount |->
     LET sy == (k - 1) \div sampleCount
         sx == (k - 1) % sampleCount
         sampleX == RAdd(cell.x, RMul(RAdd(Rat(sx, 1), Half), RDiv(cell.width, Rat(sampleCount, 1))))
         sampleY == RAdd(cell.y, RMul(RAdd(Rat(sy, 1), Half), RDiv(cell.height, Rat(sampleCount, 1))))
     IN  getHeight(hm, sampleX, sampleY)]

directions ==
  [north |-> <<0, -1>>, south |-> <<0, 1>>, east |-> <<1, 0>>, west |-> <<-1, 0>>,
   northeast |-> <<1, -1>>, northwest |-> <<-1, -1>>,
   southeast |-> <<1, 1>>, southwest |-> <<-1, 1>>]

\* direction.includes(word): the words north, south, east, west that occur in
\* the direction's name.
WordsIn ==
  [north |-> {"north"}, south |-> {"south"}, east |-> {"east"}, west |-> {"west"},
   northeast |-> {"north", "east"}, northwest |-> {"north", "west"},
   southeast |-> {"south", "east"}, southwest |-> {"south", "west"}]

includes(direction, word) == word \in WordsIn[direction]

calculateDirectionalSlopes(i, g, hm) ==
  LET cell == g.cells[i]
      centerHeight == getHeight(hm, cell.centerX, cell.centerY)
  IN  [direction \in DOMAIN directions |->
         LET neighbor == getCellByIndices(g, cell.gridX + directions[direction][1],
                                             cell.gridY + directions[direction][2])
         IN  IF neighbor = Null THEN Zero
             ELSE LET neighborHeight == getHeight(hm, g.cells[neighbor].centerX,
                                                      g.cells[neighbor].centerY)
                      distance ==
                        IF includes(direction, "north") \/ includes(direction, "south")
                           \/ includes(direction, "east") \/ includes(direction, "west")
                        THEN cell.width
                        ELSE Sqrt(RMul(Rat(2, 1), RMul(cell.width, cell.width)))
                  IN  RDiv(RSub(neighborHeight, centerHeight), distance)]

ridgeDirections ==
  { <<"north", "south">>, <<"east", "west">>,
    <<"northeast", "southwest">>, <<"northwest", "southeast">> }

\* The elements of the sequence s (for Array.prototype.every / some).
Elements(s) == {s[k] : k \in 1 .. Len(s)}

\* Reads cell i's height, slope and slopes, and whatever its neighbors'
\* properties hold at the time of the call.
classifyTerrainFeatures(i, g) ==
  LET cell == g.cells[i]
      neighbors == getNeighbors(g, i)
  IN  [isPeak |-> (\A n \in Elements(neighbors) :
                    RLess(g.cells[n].properties.height, cell.properties.height)),
       isValley |-> (\A n \in Elements(neighbors) :
                    RGreater(g.cells[n].properties.height, cell.properties.height)),
       isRidge |-> \E d \in ridgeDirections :
                    RLess(RMul(cell.properties.slopes[d[1]], cell.properties.slopes[d[2]]), Zero),
       isFlat |-> RLess(cell.properties.slope, Pct(5)),
       isSteep |-> RGreater(cell.properties.slope, Pct(30)),
       elevationClass |-> IF RLess(cell.properties.height, Pct(20)) THEN "lowland"
                          ELSE IF RLess(cell.properties.height, Pct(60)) THEN "midland"
                          ELSE "highland"]

\* AnalyzedCell with the slope taken from the highest sample alone
\* (maxHeight / cell.width): the variant C9's formula must tell apart.
AnalyzedCellSlopeFromMax(hm, g, i) ==
  LET cell == g.cells[i]
      samples == Samples(hm, cell)
      avgHeight == RDiv(SumSeq(samples, Len(samples)), Rat(Len(samples), 1))
      minHeight == MinSeq(samples, Len(samples))
      maxHeight == MaxSeq(samples, Len(samples))
      slope == RDiv(maxHeight, cell.width)
      slopes == calculateDirectionalSlopes(i, g, hm)
      stored == [analyzed |-> TRUE, height |-> avgHeight, minHeight |-> minHeight,
                 maxHeight |-> maxHeight, slope |-> slope, slopes |-> slopes,
                 terrainFeatures |-> <<>>]
      g1 == [g EXCEPT !.cells[i].properties = stored]
  IN  [g1 EXCEPT !.cells[i].properties.terrainFeatures = classifyTerrainFeatures(i, g1)]

\* One iteration of calculateHeightAndSlope's loop: the grid after cell i is analyzed.
AnalyzedCell(hm, g, i) ==
  LET cell == g.cells[i]
      samples == Samples(hm, cell)
      avgHeight == RDiv(SumSeq(samples, Len(samples)), Rat(Len(samples), 1))
      minHeight == MinSeq(samples, Len(samples))
      maxHeight == MaxSeq(samples, Len(samples))
      slope == RDiv(RSub(maxHeight, minHeight), cell.width)
      slopes == calculateDirectionalSlopes(i, g, hm)
      stored == [analyzed |-> TRUE, height |-> avgHeight, minHeight |-> minHeight,
                 maxHeight |-> maxHeight, slope |-> slope, slopes |-> slopes,
                 terrainFeatures |-> <<>>]
      g1 == [g EXCEPT !.cells[i].properties = stored]
  IN  [g1 EXCEPT !.cells[i].properties.terrainFeatures = classifyTerrainFeatures(i, g1)]

(***************************************************************************)
(* Array.prototype.sort with a comparator that subtracts keys: a stable    *)
(* sort, ascending in the key.  pairs is a sequence of <<key, item>>.      *)
(***************************************************************************)
InsertByKey(sorted, pair) ==
  LET later == {k \in 1 .. Len(sorted) : RGreater(sorted[k][1], pair[1])}
      pos == IF later = {} THEN Len(sorted) + 1
             ELSE CHOOSE k \in later : \A j \in later : k <= j
  IN  SubSeq(sorted, 1, pos - 1) \o <<pair>> \o SubSeq(sorted, pos, Len(sorted))

RECURSIVE SortPairs(_)
SortPairs(pairs) ==
  IF pairs = <<>> THEN <<>>
  ELSE InsertByKey(SortPairs(SubSeq(pairs, 1, Len(pairs) - 1)), pairs[Len(pairs)])

StableSort(pairs) ==
  LET sorted == SortPairs(pairs)
  IN  [k \in 1 .. Len(pairs) |-> sorted[k][2]]

(***************************************************************************)
(* placementMaskGenerator (second half of objectPlacementGenerator.js).    *)
(* A request is [type, subType, density, location, distribution]; a        *)
(* location is [terrain, x, y, radius] with terrain "null" for an anchor   *)
(* point, and NoLocation when the request has none; distribution           *)
(* "undefined" when the request names none.                                *)
(***************************************************************************)
NoLocation == [terrain |-> "undefined", x |-> NaN, y |-> NaN, radius |-> NaN]

\* objDef.priority of objectDefinitions[type] || { priority: 999 }
SortPriority(objectData) ==
  IF HasDefinition(objectData.type)
  THEN Rat(objectDefinitions[objectData.type].priority, 1)
  ELSE Rat(999, 1)

\* SortedObjects without the sort (the requests in the order of the input
\* list): the variant C27's formula must tell apart.
SortedObjectsInInputOrder(objects) == objects

SortedObjects(objects) ==
  StableSort([k \in 1 .. Len(objects) |-> <<SortPriority(objects[k]), objects[k]>>])

calculateDistance(x1, y1, x2, y2) ==
  Sqrt(RAdd(RSquare(RSub(x2, x1)), RSquare(RSub(y2, y1))))

\* terrainFeatures carries no slope field: features.slope is undefined.
FeatureSlope(features) ==
  IF "slope" \in DOMAIN features THEN features.slope ELSE NaN

cellHasTerrainFeature(cell, terrainType) ==
  LET features == cell.properties.terrainFeatures
  IN  CASE terrainType = "mountains" ->
             features.elevationClass = "highland" /\ RGreater(FeatureSlope(features), Pct(20))
        [] terrainType = "hills" ->
             features.elevationClass = "midland" /\ RGreater(FeatureSlope(features), Pct(10))
        [] terrainType = "flatlands" -> features.isFlat
        [] terrainType \in {"river", "lake"} -> RLess(cell.properties.height, Pct(10))
        [] terrainType = "forest" ->
             /\ RLess(cell.properties.slope, Pct(15))
             /\ RGreater(cell.properties.height, Pct(5))
             /\ RLess(cell.properties.height, Pct(80))
        [] OTHER -> FALSE

\* LocationFactor without the 0.1 of a cell that does not match the terrain
\* (the factor stays 1): the variant C8's formula must tell apart.
LocationFactorNoPenalty(objectData, g, cell) ==
  LET location == objectData.location
  IN  IF location = NoLocation THEN One
      ELSE IF location.terrain # "null"
      THEN IF cellHasTerrainFeature(cell, location.terrain) THEN Rat(15, 10) ELSE One
      ELSE LET distance == calculateDistance(RDiv(cell.centerX, Rat(g.width, 1)),
                                             RDiv(cell.centerY, Rat(g.height, 1)),
                                             location.x, location.y)
           IN  IF RLeq(distance, location.radius)
               THEN RSub(One, RDiv(RMul(Half, distance), location.radius))
               ELSE Rat(2, 10)

\* LocationFactor with a falloff that reaches 0 at the radius
\* (1 - distance / radius): the variant C23's formula must tell apart.
LocationFactorFullFalloff(objectData, g, cell) ==
  LET location == objectData.location
  IN  IF location = NoLocation THEN One
      ELSE IF location.terrain # "null"
      THEN IF cellHasTerrainFeature(cell, location.terrain) THEN Rat(15, 10) ELSE Rat(1, 10)
      ELSE LET distance == calculateDistance(RDiv(cell.centerX, Rat(g.width, 1)),
                                             RDiv(cell.centerY, Rat(g.height, 1)),
                                             location.x, location.y)
           IN  IF RLeq(distance, location.radius)
               THEN RSub(One, RDiv(distance, location.radius))
               ELSE Rat(2, 10)

\* The location factor of lines 220-247 (1 when the request has no location).
LocationFactor(objectData, g, cell) ==
  LET location == objectData.location
  IN  IF location = NoLocation THEN One
      ELSE IF location.terrain # "null"
      THEN IF cellHasTerrainFeature(cell, location.terrain) THEN Rat(15, 10) ELSE Rat(1, 10)
      ELSE LET distance == calculateDistance(RDiv(cell.centerX, Rat(g.width, 1)),
                                             RDiv(cell.centerY, Rat(g.height, 1)),
                                             location.x, location.y)
           IN  IF RLeq(distance, location.radius)
               THEN RSub(One, RDiv(RMul(Half, distance), location.radius))
               ELSE Rat(2, 10)

\* The subtype factors of lines 249-276, multiplied in the order of the code.
SubTypeFactor(subTypeRules, placementRules, g, i) ==
  LET cell == g.cells[i]
      f1 == IF "preferHigherElevation" \in subTypeRules
            THEN RAdd(Half, RMul(cell.properties.height, Half)) ELSE One
      f2 == IF "preferLowerElevation" \in subTypeRules
            THEN RSub(One, RMul(cell.properties.height, Half)) ELSE One
      f3 == IF "preferSteepSlopes" \in subTypeRules
            THEN RAdd(Half, RMul(RDiv(cell.properties.slope, placementRules.maxSlope), Half))
            ELSE One
      f4 == IF "requireFlatArea" \in subTypeRules /\ ~cell.properties.terrainFeatures.isFlat
            THEN Rat(1, 10) ELSE One
      hasWaterNeighbor ==
        \E n \in Elements(getNeighbors(g, i)) :
               /\ RLess(g.cells[n].properties.height, Pct(10))
               /\ g.cells[n].properties.terrainFeatures.elevationClass = "lowland"
      f5 == IF "requireWaterAccess" \in subTypeRules /\ ~hasWaterNeighbor
            THEN Rat(1, 10) ELSE One
  IN  RMul(RMul(RMul(RMul(f1, f2), f3), f4), f5)

\* The hard gate of lines 207-214: the cell is skipped with suitability 0.
Rejected(placementRules, cell) ==
  \/ RGreater(cell.properties.slope, placementRules.maxSlope)
  \/ RLess(cell.properties.height, placementRules.minHeight)
  \/ RGreater(cell.properties.height, placementRules.maxHeight)

\* CellSuitability with a gate that tests the slope only: the variant C2's
\* formula must tell apart.
CellSuitabilitySlopeGateOnly(objectData, objectDef, g, i) ==
  LET placementRules == objectDef.placementRules
      subTypeRules == SubTypeRules(objectDef, objectData.subType)
      cell == g.cells[i]
  IN  IF RGreater(cell.properties.slope, placementRules.maxSlope) THEN Zero
      ELSE RMul(RMul(RMul(One, LocationFactor(objectData, g, cell)),
                     SubTypeFactor(subTypeRules, placementRules, g, i)),
                objectData.density)

\* CellSuitability with a density of 0 taken as not given
\* (objectData.density || 0.5): the variant C29's formula must tell apart.
CellSuitabilityDefaultDensity(objectData, objectDef, g, i) ==
  LET placementRules == objectDef.placementRules
      subTypeRules == SubTypeRules(objectDef, objectData.subType)
      cell == g.cells[i]
  IN  IF Rejected(placementRules, cell) THEN Zero
      ELSE RMul(RMul(RMul(One, LocationFactor(objectData, g, cell)),
                     SubTypeFactor(subTypeRules, placementRules, g, i)),
                IF objectData.density = Zero THEN Half ELSE objectData.density)

\* The value stored in cell.suitability[objectData.type] for cell i.
CellSuitability(objectData, objectDef, g, i) ==
  LET placementRules == objectDef.placementRules
      subTypeRules == SubTypeRules(objectDef, objectData.subType)
      cell == g.cells[i]
  IN  IF Rejected(placementRules, cell) THEN Zero
      ELSE RMul(RMul(RMul(One, LocationFactor(objectData, g, cell)),
                     SubTypeFactor(subTypeRules, placementRules, g, i)),
                objectData.density)

\* f with f[k] = v, k added to the domain when it is not in it.
Put(f, k, v) == [x \in (DOMAIN f) \cup {k} |-> IF x = k THEN v ELSE f[x]]

\* calculateObjectSuitability storing each score in a fresh object
\* (cell.suitability = { [type]: score }), which drops the other types'
\* scores: the variant C12's formula must tell apart.
calculateObjectSuitabilityFresh(objectData, objectDef, g) ==
  [g EXCEPT !.cells = [i \in DOMAIN g.cells |->
     [g.cells[i] EXCEPT !.suitability =
        Put(<<>>, objectData.type, CellSuitability(objectData, objectDef, g, i))]]]

\* calculateObjectSuitability that also caps each cell's stored slope at the
\* rule's maxSlope (cell.properties.slope = Math.min(slope, maxSlope)): the
\* variant C18's formula must tell apart.
calculateObjectSuitabilityCappingSlope(objectData, objectDef, g) ==
  [g EXCEPT !.cells = [i \in DOMAIN g.cells |->
     [g.cells[i] EXCEPT
        !.suitability = Put(g.cells[i].suitability, objectData.type,
                            CellSuitability(objectData, objectDef, g, i)),
        !.properties.slope =
          IF RGreater(g.cells[i].properties.slope, objectDef.placementRules.maxSlope)
          THEN objectDef.placementRules.maxSlope
          ELSE g.cells[i].properties.slope]]]

calculateObjectSuitability(objectData, objectDef, g) ==
  [g EXCEPT !.cells = [i \in DOMAIN g.cells |->
     [g.cells[i] EXCEPT !.suitability =
        Put(g.cells[i].suitability, objectData.type,
            CellSuitability(objectData, objectDef, g, i))]]]

(***************************************************************************)
(* Math.random() < p, for a draw of [0, 1): it can succeed iff p > 0 and   *)
(* must succeed iff p >= 1; with p NaN it fails.                           *)
(***************************************************************************)
CanHit(p) == RGreater(p, Zero)

MustHit(p) == RGeq(p, One)

\* The cell arrays a loop "if (Math.random() < prob[i]) cells[i] = 1" can leave:
\* the cells whose draw must succeed are set, those whose draw can succeed are
\* set or left, the others are left.
DrawnMasks(cells, prob) ==
  LET must == {i \in DOMAIN cells : MustHit(prob[i])}
      can == {i \in DOMAIN cells : CanHit(prob[i])}
  IN  {[i \in DOMAIN cells |-> IF i \in must \/ i \in hits THEN 1 ELSE cells[i]] :
         hits \in SUBSET (can \ must)}

\* cell.suitability[objectData.type] || 0
SuitabilityOf(g, i, type) ==
  IF type \in DOMAIN g.cells[i].suitability /\ ~IsNaN(g.cells[i].suitability[type])
  THEN g.cells[i].suitability[type]
  ELSE Zero

\* objectData.distribution || 'random', and the switch of createPlacementMask
Distribution(objectData) ==
  IF objectData.distribution \in {"natural", "clustered", "water"}
  THEN objectData.distribution
  ELSE "random"

NewMask(g) ==
  [grid |-> g.gridSize, width |-> g.width, height |-> g.height,
   cells |-> [i \in DOMAIN g.cells |-> 0]]

RandomProbability(objectData, g) ==
  [i \in DOMAIN g.cells |-> SuitabilityOf(g, i, objectData.type)]

suitabilityThreshold == Rat(3, 10)

\* Natural seed phase: a draw only for cells above suitabilityThreshold.
NaturalSeedProbability(objectData, g) ==
  [i \in DOMAIN g.cells |->
     IF RGreater(SuitabilityOf(g, i, objectData.type), suitabilityThreshold)
     THEN SuitabilityOf(g, i, objectData.type)
     ELSE Zero]

iterations == 2

BirthThreshold == RMul(suitabilityThreshold, Rat(7, 10))

\* NaturalIterationMask with newMask allocated with mask.grid entries instead
\* of mask.cells.length (writes past the end of a typed array are dropped):
\* the variant C4's formula must tell apart.
NaturalIterationMaskShort(objectData, cells, g) ==
  [i \in 0 .. (g.gridSize - 1) |->
     LET activeNeighbors ==
           Len(SelectSeq(getNeighbors(g, i), LAMBDA n :
                 cells[g.cells[n].gridY * g.gridSize + g.cells[n].gridX] = 1))
         idx == g.cells[i].gridY * g.gridSize + g.cells[i].gridX
     IN  IF cells[idx] = 1
         THEN IF activeNeighbors < 2 \/ activeNeighbors > 6 THEN 0 ELSE cells[idx]
         ELSE IF /\ activeNeighbors >= 3
                 /\ activeNeighbors <= 4
                 /\ RGreater(g.cells[i].suitability[objectData.type], BirthThreshold)
              THEN 1
              ELSE cells[idx]]

\* NaturalIterationMask with a birth rule that does not read the suitability:
\* the variant C5's formula must tell apart.
NaturalIterationMaskAnyBirth(objectData, cells, g) ==
  [i \in DOMAIN cells |->
     LET activeNeighbors ==
           Len(SelectSeq(getNeighbors(g, i), LAMBDA n :
                 cells[g.cells[n].gridY * g.gridSize + g.cells[n].gridX] = 1))
         idx == g.cells[i].gridY * g.gridSize + g.cells[i].gridX
     IN  IF cells[idx] = 1
         THEN IF activeNeighbors < 2 \/ activeNeighbors > 6 THEN 0 ELSE cells[idx]
         ELSE IF activeNeighbors >= 3 /\ activeNeighbors <= 4
              THEN 1
              ELSE cells[idx]]

\* NaturalIterationMask without the upper bound of the survival rule (an
\* active cell dies only below 2 active neighbors): the variant C21's formula
\* must tell apart.
NaturalIterationMaskNoOvercrowding(objectData, cells, g) ==
  [i \in DOMAIN cells |->
     LET activeNeighbors ==
           Len(SelectSeq(getNeighbors(g, i), LAMBDA n :
                 cells[g.cells[n].gridY * g.gridSize + g.cells[n].gridX] = 1))
         idx == g.cells[i].gridY * g.gridSize + g.cells[i].gridX
     IN  IF cells[idx] = 1
         THEN IF activeNeighbors < 2 THEN 0 ELSE cells[idx]
         ELSE IF /\ activeNeighbors >= 3
                 /\ activeNeighbors <= 4
                 /\ RGreater(g.cells[i].suitability[objectData.type], BirthThreshold)
              THEN 1
              ELSE cells[idx]]

\* One pass of the cellular automaton: newMask computed from mask.cells.
NaturalIterationMask(objectData, cells, g) ==
  [i \in DOMAIN cells |->
     LET activeNeighbors ==
           Len(SelectSeq(getNeighbors(g, i), LAMBDA n :
                 cells[g.cells[n].gridY * g.gridSize + g.cells[n].gridX] = 1))
         idx == g.cells[i].gridY * g.gridSize + g.cells[i].gridX
     IN  IF cells[idx] = 1
         THEN IF activeNeighbors < 2 \/ activeNeighbors > 6 THEN 0 ELSE cells[idx]
         ELSE IF /\ activeNeighbors >= 3
                 /\ activeNeighbors <= 4
                 /\ RGreater(g.cells[i].suitability[objectData.type], BirthThreshold)
              THEN 1
              ELSE cells[idx]]

clusterThreshold == Rat(6, 10)

maxClusters == 5

\* The sequence of the indices of the cells, in grid order.
CellIndices(g) == [k \in 1 .. Cardinality(DOMAIN g.cells) |-> k - 1]

\* FinalCenters without the sort: the first maxClusters cells above
\* clusterThreshold in grid order: the variant C25's formula must tell apart.
FinalCentersUnsorted(objectData, g) ==
  LET clusterCenters ==
        SelectSeq(CellIndices(g), LAMBDA i :
                    RGreater(SuitabilityOf(g, i, objectData.type), clusterThreshold))
  IN  SubSeq(clusterCenters, 1,
             IF Len(clusterCenters) < maxClusters THEN Len(clusterCenters) ELSE maxClusters)

\* finalCenters: cells above clusterThreshold, highest suitability first, at
\* most maxClusters of them.
FinalCenters(objectData, g) ==
  LET clusterCenters ==
        SelectSeq(CellIndices(g), LAMBDA i :
                    RGreater(SuitabilityOf(g, i, objectData.type), clusterThreshold))
      sorted == StableSort([k \in 1 .. Len(clusterCenters) |->
                              <<RNeg(SuitabilityOf(g, clusterCenters[k], objectData.type)),
                                clusterCenters[k]>>])
  IN  SubSeq(sorted, 1, IF Len(sorted) < maxClusters THEN Len(sorted) ELSE maxClusters)

clusterRadius(g) == RMul(Rat(g.width, 1), Rat(1, 10))

\* ClusterProbability with a distance factor that falls to 0.5 at the radius
\* (1 - 0.5 * distance / clusterRadius): the variant C30's formula must tell
\* apart.
ClusterProbabilityHalfFalloff(objectData, g, center) ==
  LET clusterCells == getCellsInRadius(g, g.cells[center].centerX,
                                       g.cells[center].centerY, clusterRadius(g))
  IN  [i \in DOMAIN g.cells |->
         IF \E k \in 1 .. Len(clusterCells) : clusterCells[k] = i
         THEN LET distance ==
                    Sqrt(RAdd(RSquare(RSub(g.cells[i].centerX, g.cells[center].centerX)),
                              RSquare(RSub(g.cells[i].centerY, g.cells[center].centerY))))
                  distanceFactor == RSub(One, RDiv(RMul(Half, distance), clusterRadius(g)))
              IN  RMul(distanceFactor, SuitabilityOf(g, i, objectData.type))
         ELSE Zero]

\* The probability with which one cluster pass sets each cell (0 for a cell
\* outside the cluster).
ClusterProbability(objectData, g, center) ==
  LET clusterCells == getCellsInRadius(g, g.cells[center].centerX,
                                       g.cells[center].centerY, clusterRadius(g))
  IN  [i \in DOMAIN g.cells |->
         IF \E k \in 1 .. Len(clusterCells) : clusterCells[k] = i
         THEN LET distance ==
                    Sqrt(RAdd(RSquare(RSub(g.cells[i].centerX, g.cells[center].centerX)),
                              RSquare(RSub(g.cells[i].centerY, g.cells[center].centerY))))
                  distanceFactor == RSub(One, RDiv(distance, clusterRadius(g)))
              IN  RMul(distanceFactor, SuitabilityOf(g, i, objectData.type))
         ELSE Zero]

\* WaterProbability with requireDeepWater tested against isWater (< 0.1)
\* instead of isDeepWater: the variant C7's formula must tell apart.
WaterProbabilityAnyWater(objectData, g) ==
  [i \in DOMAIN g.cells |->
     LET cell == g.cells[i]
         suitability == SuitabilityOf(g, i, objectData.type)
         isWater == RLess(cell.properties.height, Pct(10))
         isWaterEdge == ~isWater /\ \E n \in Elements(getNeighbors(g, i)) :
                                           RLess(g.cells[n].properties.height, Pct(10))
         subTypeRules == IF HasDefinition(objectData.type)
                         THEN SubTypeRules(objectDefinitions[objectData.type],
                                           objectData.subType)
                         ELSE {}
     IN  IF "requireDeepWater" \in subTypeRules /\ isWater THEN suitability
         ELSE IF "requireWaterEdge" \in subTypeRules /\ isWaterEdge THEN suitability
         ELSE IF /\ "requireDeepWater" \notin subTypeRules
                 /\ "requireWaterEdge" \notin subTypeRules
                 /\ isWater
              THEN suitability
         ELSE Zero]

\* waterSuitability of each cell.
\* WaterProbability with a water edge that is any cell out of the water,
\* whatever its neighbors: the variant C26's formula must tell apart.
WaterProbabilityAnyShore(objectData, g) ==
  [i \in DOMAIN g.cells |->
     LET cell == g.cells[i]
         suitability == SuitabilityOf(g, i, objectData.type)
         isWater == RLess(cell.properties.height, Pct(10))
         isDeepWater == RLess(cell.properties.height, Pct(5))
         isWaterEdge == ~isWater
         subTypeRules == IF HasDefinition(objectData.type)
                         THEN SubTypeRules(objectDefinitions[objectData.type],
                                           objectData.subType)
                         ELSE {}
     IN  IF "requireDeepWater" \in subTypeRules /\ isDeepWater THEN suitability
         ELSE IF "requireWaterEdge" \in subTypeRules /\ isWaterEdge THEN suitability
         ELSE IF /\ "requireDeepWater" \notin subTypeRules
                 /\ "requireWaterEdge" \notin subTypeRules
                 /\ isWater
              THEN suitability
         ELSE Zero]

WaterProbability(objectData, g) ==
  [i \in DOMAIN g.cells |->
     LET cell == g.cells[i]
         suitability == SuitabilityOf(g, i, objectData.type)
         isWater == RLess(cell.properties.height, Pct(10))
         isDeepWater == RLess(cell.properties.height, Pct(5))
         isWaterEdge == ~isWater /\ \E n \in Elements(getNeighbors(g, i)) :
                                           RLess(g.cells[n].properties.height, Pct(10))
         subTypeRules == IF HasDefinition(objectData.type)
                         THEN SubTypeRules(objectDefinitions[objectData.type],
                                           objectData.subType)
                         ELSE {}
     IN  IF "requireDeepWater" \in subTypeRules /\ isDeepWater THEN suitability
         ELSE IF "requireWaterEdge" \in subTypeRules /\ isWaterEdge THEN suitability
         ELSE IF /\ "requireDeepWater" \notin subTypeRules
                 /\ "requireWaterEdge" \notin subTypeRules
                 /\ isWater
              THEN suitability
         ELSE Zero]

(***************************************************************************)
(* generatePlacementMasks as a function of its arguments: the set of the   *)
(* results it can return, over all outcomes of the draws.                  *)
(***************************************************************************)
\* The cell array after n more turns of the loop of lines 342-375.
RECURSIVE NaturalIterated(_, _, _, _)
NaturalIterated(request, cells, g, n) ==
  IF n = 0 THEN cells
  ELSE NaturalIterated(request, NaturalIterationMask(request, cells, g), g, n - 1)

\* The cell arrays the loop of lines 412-436 can leave from center k on, masks
\* being those it can have reached before center k.
RECURSIVE ClusteredMasks(_, _, _, _, _)
ClusteredMasks(request, g, centers, k, masks) ==
  IF k > Len(centers) THEN masks
  ELSE ClusteredMasks(request, g, centers, k + 1,
                      UNION {DrawnMasks(m, ClusterProbability(request, g, centers[k])) :
                               m \in masks})

\* The cell arrays createPlacementMask can leave in a mask that holds cells.
createPlacementMask(request, cells, g) ==
  CASE Distribution(request) = "natural" ->
         {NaturalIterated(request, m, g, iterations) :
            m \in DrawnMasks(cells, NaturalSeedProbability(request, g))}
    [] Distribution(request) = "clustered" ->
         ClusteredMasks(request, g, FinalCenters(request, g), 1, {cells})
    [] Distribution(request) = "water" ->
         DrawnMasks(cells, WaterProbability(request, g))
    [] OTHER ->
         DrawnMasks(cells, RandomProbability(request, g))

\* The loop of lines 161-186 from request k on: results are the values
\* placementMasks can have before request k, g is the grid at that point.
RECURSIVE ProcessRequests(_, _, _, _)
ProcessRequests(sorted, k, g, results) ==
  IF k > Len(sorted) THEN results
  ELSE IF ~HasDefinition(sorted[k].type) THEN ProcessRequests(sorted, k + 1, g, results)
  ELSE LET scored == calculateObjectSuitability(sorted[k], objectDefinitions[sorted[k].type], g)
           masks == createPlacementMask(sorted[k], NewMask(g).cells, scored)
       IN  ProcessRequests(sorted, k + 1, scored,
                           {Put(r, sorted[k].type, [NewMask(g) EXCEPT !.cells = m]) :
                              r \in results, m \in masks})

generatePlacementMasks(objects, g) ==
  ProcessRequests(SortedObjects(objects), 1, g, {<<>>})

(***************************************************************************)
(* Inputs.  The height maps are GridSize x GridSize cells of cw x ch       *)
(* pixels; a terrain gives, per cell (cyclically), the height of its       *)
(* pixels in hundredths and the extra height of its last pixel column.     *)
(***************************************************************************)
CellDims == { <<2, 2>>, <<10, 1>> }

Terrains ==
  { [base |-> <<50, 50, 50, 50>>, relief |-> <<0, 0, 0, 0>>],
    [base |-> <<3, 8, 15, 50>>,   relief |-> <<0, 0, 0, 0>>],
    [base |-> <<40, 40, 40, 15>>, relief |-> <<0, 20, 40, 80>>],
    [base |-> <<50, 50, 50, 8>>,  relief |-> <<0, 0, 0, 0>>],
    [base |-> <<30, 30, 30, 80>>, relief |-> <<0, 0, 0, 0>>] }

\* A map of n x n cells of dims[1] x dims[2] pixels each: cell k holds the
\* terrain's k-th base height, raised by its relief in its last pixel column.
MakeHeightMapOf(n, dims, terrain) ==
  LET cw == dims[1]
      ch == dims[2]
      w == n * cw
      h == n * ch
  IN  [width |-> w,
       height |-> h,
       data |-> [idx \in 0 .. (w * h - 1) |->
                   LET px == idx % w
                       py == idx \div w
                       k == (((py \div ch) * n + (px \div cw)) % Len(terrain.base)) + 1
                   IN  Pct(terrain.base[k] + IF px % cw = cw - 1 THEN terrain.relief[k] ELSE 0)]]

MakeHeightMap(dims, terrain) == MakeHeightMapOf(GridSize, dims, terrain)

HeightMaps == {MakeHeightMap(dims, terrain) : dims \in CellDims, terrain \in Terrains}

Anchor(x, y, radius) == [terrain |-> "null", x |-> x, y |-> y, radius |-> radius]

Terrain(tag) == [terrain |-> tag, x |-> Half, y |-> Half, radius |-> Zero]

Center == Anchor(Half, Half, Half)

Request(type, subType, density, location, distribution) ==
  [type |-> type, subType |-> subType, density |-> density,
   location |-> location, distribution |-> distribution]

Requests ==
  { Request("tree", "oak", Rat(8, 10), Terrain("forest"), "natural"),
    Request("tree", "pine", Rat(8, 10), Center, "natural"),
    Request("rock", "boulder", Rat(5, 10), Terrain("mountains"), "random"),
    Request("rock", "rock", Rat(5, 10), Anchor(Half, Rat(1, 10), Rat(3, 10)), "random"),
    Request("building", "village", Rat(5, 10), Terrain("river"), "clustered"),
    Request("building", "house", One, Center, "clustered"),
    Request("building", "city", Rat(8, 10), Terrain("flatlands"), "clustered"),
    Request("waterObject", "boat", Rat(5, 10), Center, "water"),
    Request("waterObject", "dock", Rat(8, 10), Terrain("lake"), "water"),
    Request("waterObject", "default", Rat(5, 10), NoLocation, "water"),
    Request("vegetation", "bush", Rat(5, 10), Terrain("hills"), "undefined"),
    Request("castle", "default", Rat(5, 10), Center, "random") }

RequestLists == UNION {[1 .. n -> Requests] : n \in 0 .. MaxRequests}

\* Every type with every subtype of the rule table (and one subtype it does
\* not have), under every distribution name, for the single-request runs.
SubTypesOf(type) ==
  IF HasDefinition(type) THEN (DOMAIN objectDefinitions[type].subtypes) \cup {"default"}
  ELSE {"default"}

AnyRequests ==
  {Request(type, subType, density, location, distribution) :
     type \in (DOMAIN objectDefinitions) \cup {"castle"},
     subType \in UNION {SubTypesOf(t) : t \in DOMAIN objectDefinitions},
     density \in {Zero, Half},
     location \in {Center, Terrain("forest"), Terrain("river"), Terrain("lake"),
                   Terrain("mountains")},
     distribution \in {"natural", "clustered", "water", "random"}}

SingleRequests ==
  {<<r>> : r \in {q \in AnyRequests : q.subType \in SubTypesOf(q.type)}}

(***************************************************************************)
(* State.                                                                  *)
(***************************************************************************)
VARIABLES
  heightMap,       \* the loaded height map (input)
  objectsData,     \* objectsData.objects, the request list (input)
  pc,              \* where ObjectPlacementGenerator.generate stands
  grid,            \* the grid, its cells with their properties and suitability
  cellIndex,       \* calculateHeightAndSlope: index of the next cell to analyze
  sortedObjects,   \* generatePlacementMasks: the requests sorted by priority
  objectIndex,     \* position in sortedObjects of the request being processed
  placementMasks,  \* object type -> mask
  iter,            \* createNaturalDistributionMask: iterations done
  finalCenters,    \* createClusteredDistributionMask: the cluster centers
  centerIndex,     \* position in finalCenters of the next center
  run,             \* 1 in the first run of generate, 2 in a repeated run
  firstMasks,      \* the masks the first run returned
  gridSizeOption,  \* options.gridSize (input); 0 when the option is not given
  query,           \* the last call of a helper method of the grid, with its arguments
  result           \* what that call returned

vars ==
  <<heightMap, objectsData, pc, grid, cellIndex, sortedObjects, objectIndex,
    placementMasks, iter, finalCenters, centerIndex, run, firstMasks,
    gridSizeOption, query, result>>

NoGrid ==
  [width |-> 0, height |-> 0, gridSize |-> 0, cellWidth |-> NaN, cellHeight |-> NaN,
   cells |-> <<>>]

Start ==
  /\ pc = "createGrid"
  /\ grid = NoGrid
  /\ cellIndex = 0
  /\ sortedObjects = <<>>
  /\ objectIndex = 1
  /\ placementMasks = <<>>
  /\ iter = 0
  /\ finalCenters = <<>>
  /\ centerIndex = 1

\* No helper method of the grid has been called.
NoQuery == [op |-> "none"]

InitWith(lists) ==
  /\ heightMap \in HeightMaps
  /\ objectsData \in lists
  /\ Start
  /\ run = 1
  /\ firstMasks = <<>>
  /\ gridSizeOption = GridSize
  /\ query = NoQuery
  /\ result = Null

Init == InitWith(RequestLists)

inputs == <<heightMap, objectsData, run, firstMasks, gridSizeOption, query, result>>

analysis == <<cellIndex>>

loopVars == <<sortedObjects, objectIndex>>

strategyVars == <<iter, finalCenters, centerIndex>>

\* The request being processed.
objectData == sortedObjects[objectIndex]

(***************************************************************************)
(* ObjectPlacementGenerator.generate, steps 3 and 4.                       *)
(***************************************************************************)
\* const gridSize = options.gridSize || 1024.  The height maps of the model
\* are laid out for GridSize cells a side, which stands for the default.
gridSize == IF gridSizeOption = 0 THEN GridSize ELSE gridSizeOption

\* createGrid, then calculateHeightAndSlope's loop when the grid has cells.
CreateGrid ==
  /\ pc = "createGrid"
  /\ grid' = createGrid(heightMap.width, heightMap.height, gridSize)
  /\ pc' = IF gridSize > 0 THEN "analyze" ELSE "sort"
  /\ UNCHANGED <<inputs, analysis, loopVars, placementMasks, strategyVars>>

\* AnalyzeCell leaving the loop one cell early (for i < cells.length - 1), so
\* that the last cell keeps properties = {}: the variant C28's formula must
\* tell apart.
AnalyzeCellStoppingEarly ==
  /\ pc = "analyze"
  /\ cellIndex \in DOMAIN grid.cells
  /\ grid' = AnalyzedCell(heightMap, grid, cellIndex)
  /\ cellIndex' = cellIndex + 1
  /\ pc' = IF cellIndex + 2 \in DOMAIN grid.cells THEN "analyze" ELSE "sort"
  /\ UNCHANGED <<inputs, loopVars, placementMasks, strategyVars>>

AnalyzeCell ==
  /\ pc = "analyze"
  /\ cellIndex \in DOMAIN grid.cells
  /\ grid' = AnalyzedCell(heightMap, grid, cellIndex)
  /\ cellIndex' = cellIndex + 1
  /\ pc' = IF cellIndex + 1 \in DOMAIN grid.cells THEN "analyze" ELSE "sort"
  /\ UNCHANGED <<inputs, loopVars, placementMasks, strategyVars>>

(***************************************************************************)
(* generatePlacementMasks.                                                 *)
(***************************************************************************)
SortObjects ==
  /\ pc = "sort"
  /\ sortedObjects' = SortedObjects(objectsData)
  /\ objectIndex' = 1
  /\ placementMasks' = <<>>
  /\ pc' = "request"
  /\ UNCHANGED <<inputs, grid, analysis, strategyVars>>

\* SkipUnknownType without the continue: the request gets an (empty) mask
\* before the loop goes on.  The variant C10's formula must tell apart.
SkipUnknownTypeWithMask ==
  /\ pc = "request"
  /\ objectIndex <= Len(sortedObjects)
  /\ ~HasDefinition(objectData.type)
  /\ placementMasks' = Put(placementMasks, objectData.type, NewMask(grid))
  /\ objectIndex' = objectIndex + 1
  /\ UNCHANGED <<inputs, pc, grid, analysis, sortedObjects, strategyVars>>

\* No definition for the type: console.warn and continue.
SkipUnknownType ==
  /\ pc = "request"
  /\ objectIndex <= Len(sortedObjects)
  /\ ~HasDefinition(objectData.type)
  /\ objectIndex' = objectIndex + 1
  /\ UNCHANGED <<inputs, pc, grid, analysis, sortedObjects, placementMasks, strategyVars>>

InitMask ==
  /\ pc = "request"
  /\ objectIndex <= Len(sortedObjects)
  /\ HasDefinition(objectData.type)
  /\ placementMasks' = Put(placementMasks, objectData.type, NewMask(grid))
  /\ pc' = "suitability"
  /\ UNCHANGED <<inputs, grid, analysis, loopVars, strategyVars>>

CalculateObjectSuitability ==
  /\ pc = "suitability"
  /\ grid' = calculateObjectSuitability(objectData, objectDefinitions[objectData.type], grid)
  /\ pc' = "mask"
  /\ UNCHANGED <<inputs, analysis, loopVars, placementMasks, strategyVars>>

\* The mask of the request being processed, with its cells replaced.
WithCells(cells) == [placementMasks EXCEPT ![objectData.type].cells = cells]

maskCells == placementMasks[objectData.type].cells

CreateRandomDistributionMask ==
  /\ pc = "mask"
  /\ Distribution(objectData) = "random"
  /\ \E m \in DrawnMasks(maskCells, RandomProbability(objectData, grid)) :
        placementMasks' = WithCells(m)
  /\ objectIndex' = objectIndex + 1
  /\ pc' = "request"
  /\ UNCHANGED <<inputs, grid, analysis, sortedObjects, strategyVars>>

CreateWaterDistributionMask ==
  /\ pc = "mask"
  /\ Distribution(objectData) = "water"
  /\ \E m \in DrawnMasks(maskCells, WaterProbability(objectData, grid)) :
        placementMasks' = WithCells(m)
  /\ objectIndex' = objectIndex + 1
  /\ pc' = "request"
  /\ UNCHANGED <<inputs, grid, analysis, sortedObjects, strategyVars>>

\* createNaturalDistributionMask, lines 330-338
NaturalSeed ==
  /\ pc = "mask"
  /\ Distribution(objectData) = "natural"
  /\ \E m \in DrawnMasks(maskCells, NaturalSeedProbability(objectData, grid)) :
        placementMasks' = WithCells(m)
  /\ iter' = 0
  /\ pc' = "natural"
  /\ UNCHANGED <<inputs, grid, analysis, loopVars, finalCenters, centerIndex>>

\* createNaturalDistributionMask, one turn of the loop of lines 342-375
NaturalIteration ==
  /\ pc = "natural"
  /\ iter < iterations
  /\ placementMasks' = WithCells(NaturalIterationMask(objectData, maskCells, grid))
  /\ iter' = iter + 1
  /\ IF iter + 1 < iterations
     THEN pc' = "natural" /\ UNCHANGED objectIndex
     ELSE pc' = "request" /\ objectIndex' = objectIndex + 1
  /\ UNCHANGED <<inputs, grid, analysis, sortedObjects, finalCenters, centerIndex>>

\* createClusteredDistributionMask, lines 387-410
ClusterCenters ==
  /\ pc = "mask"
  /\ Distribution(objectData) = "clustered"
  /\ finalCenters' = FinalCenters(objectData, grid)
  /\ centerIndex' = 1
  /\ IF FinalCenters(objectData, grid) # <<>>
     THEN pc' = "clustered" /\ UNCHANGED objectIndex
     ELSE pc' = "request" /\ objectIndex' = objectIndex + 1
  /\ UNCHANGED <<inputs, grid, analysis, sortedObjects, placementMasks, iter>>

\* ClusterPass writing the outcome of the draw to every cell the cluster can
\* reach (cells[idx] = draw ? 1 : 0), so that a failed draw clears the cell:
\* the variant C6's formula must tell apart.
ClusterPassOverwrite ==
  /\ pc = "clustered"
  /\ centerIndex <= Len(finalCenters)
  /\ LET prob == ClusterProbability(objectData, grid, finalCenters[centerIndex])
         cleared == [i \in DOMAIN maskCells |-> IF CanHit(prob[i]) THEN 0 ELSE maskCells[i]]
     IN  \E m \in DrawnMasks(cleared, prob) : placementMasks' = WithCells(m)
  /\ centerIndex' = centerIndex + 1
  /\ IF centerIndex + 1 <= Len(finalCenters)
     THEN pc' = "clustered" /\ UNCHANGED objectIndex
     ELSE pc' = "request" /\ objectIndex' = objectIndex + 1
  /\ UNCHANGED <<inputs, grid, analysis, sortedObjects, iter, finalCenters>>

\* createClusteredDistributionMask, one turn of the loop of lines 412-436
ClusterPass ==
  /\ pc = "clustered"
  /\ centerIndex <= Len(finalCenters)
  /\ \E m \in DrawnMasks(maskCells,
                         ClusterProbability(objectData, grid, finalCenters[centerIndex])) :
        placementMasks' = WithCells(m)
  /\ centerIndex' = centerIndex + 1
  /\ IF centerIndex + 1 <= Len(finalCenters)
     THEN pc' = "clustered" /\ UNCHANGED objectIndex
     ELSE pc' = "request" /\ objectIndex' = objectIndex + 1
  /\ UNCHANGED <<inputs, grid, analysis, sortedObjects, iter, finalCenters>>

\* return placementMasks
ReturnMasks ==
  /\ pc = "request"
  /\ objectIndex > Len(sortedObjects)
  /\ pc' = "done"
  /\ UNCHANGED <<inputs, grid, analysis, loopVars, placementMasks, strategyVars>>

Next ==
  \/ CreateGrid
  \/ AnalyzeCell
  \/ SortObjects
  \/ SkipUnknownType
  \/ InitMask
  \/ CalculateObjectSuitability
  \/ CreateRandomDistributionMask
  \/ CreateWaterDistributionMask
  \/ NaturalSeed
  \/ NaturalIteration
  \/ ClusterCenters
  \/ ClusterPass
  \/ ReturnMasks

Spec == Init /\ [][Next]_vars

\* Runs of one request, drawn from every type, subtype and distribution.
InitAny == InitWith(SingleRequests)

SpecAny == InitAny /\ [][Next]_vars

\* Runs of one request under each kind of options.gridSize: negative, zero
\* (or not given), positive.
GridSizeOptions == {-1, 0, GridSize}

InitConfig ==
  /\ heightMap \in HeightMaps
  /\ objectsData \in {<<r>> : r \in Requests}
  /\ Start
  /\ run = 1
  /\ firstMasks = <<>>
  /\ gridSizeOption \in GridSizeOptions
  /\ query = NoQuery
  /\ result = Null

SpecConfig == InitConfig /\ [][Next]_vars

\* Height maps with a value the height source should not give: a cell at 1.7,
\* a cell at -0.2, a pixel column at 1.1, and a NaN at the first pixel.
BadTerrains ==
  { [base |-> <<50, 50, 50, 170>>, relief |-> <<0, 0, 0, 0>>],
    [base |-> <<50, -20, 50, 50>>, relief |-> <<0, 0, 0, 0>>],
    [base |-> <<50, 50, 50, 50>>,  relief |-> <<0, 0, 0, 60>>] }

BadHeightMaps ==
  {MakeHeightMap(dims, terrain) : dims \in CellDims, terrain \in BadTerrains}
  \cup {[MakeHeightMap(dims, [base |-> <<50, 50, 50, 50>>, relief |-> <<0, 0, 0, 0>>])
           EXCEPT !.data[0] = NaN] : dims \in CellDims}

InitBadHeights ==
  /\ heightMap \in BadHeightMaps
  /\ objectsData \in RequestLists
  /\ Start
  /\ run = 1
  /\ firstMasks = <<>>
  /\ gridSizeOption = GridSize
  /\ query = NoQuery
  /\ result = Null

SpecBadHeights == InitBadHeights /\ [][Next]_vars

\* generate called a second time with the same prompt and height map.
Rerun ==
  /\ pc = "done"
  /\ run = 1
  /\ run' = 2
  /\ firstMasks' = placementMasks
  /\ pc' = "createGrid"
  /\ grid' = NoGrid
  /\ cellIndex' = 0
  /\ sortedObjects' = <<>>
  /\ objectIndex' = 1
  /\ placementMasks' = <<>>
  /\ iter' = 0
  /\ finalCenters' = <<>>
  /\ centerIndex' = 1
  /\ UNCHANGED <<heightMap, objectsData, gridSizeOption, query, result>>

NextRerun == Next \/ Rerun

InitRerun == InitWith({<<r>> : r \in Requests})

SpecRerun == InitRerun /\ [][NextRerun]_vars

(***************************************************************************)
(* The grid's helper methods, called on a freshly created grid of any size *)
(* up to MaxGridSize: query holds the call and its arguments, result what  *)
(* it returned (cells as row-major indices, null as Null).                 *)
(***************************************************************************)
MaxGridSize == 4

\* Maps of 2x2 and 10x1 pixels per cell at GridSize, with level terrain.
GridHeightMaps ==
  {MakeHeightMap(dims, [base |-> <<50, 50, 50, 50>>, relief |-> <<0, 0, 0, 0>>]) :
     dims \in CellDims}

InitGrid ==
  /\ heightMap \in GridHeightMaps
  /\ objectsData = <<>>
  /\ Start
  /\ run = 1
  /\ firstMasks = <<>>
  /\ gridSizeOption \in 1 .. MaxGridSize
  /\ query = NoQuery
  /\ result = Null

\* Coordinates along one axis of n cells of the given size: before the map,
\* on every cell boundary, just before it and a third of a cell after it.
AxisPoints(size, n) ==
  {Rat(-1, 2)} \cup
  UNION {{RMul(Rat(j, 1), size),
          RSub(RMul(Rat(j, 1), size), Rat(1, 100)),
          RMul(Rat(3 * j + 1, 3), size)} : j \in 0 .. n}

\* Centres for a radius query along one axis: a cell before the map, both
\* map edges and every cell centre.
AxisCenters(size, n) ==
  {RNeg(size), Zero, RMul(Rat(n, 1), size)} \cup
  {RMul(Rat(2 * j + 1, 2), size) : j \in 0 .. (n - 1)}

\* Radii below zero, zero, and up to a cell and a half.
Radii(g) ==
  {Rat(-1, 1), Zero,
   RMul(Half, g.cellHeight), g.cellHeight,
   RMul(Half, g.cellWidth), g.cellWidth, RMul(Rat(3, 2), g.cellWidth),
   Rat(-1, 100)}

\* The grid exists and no helper has been called on it yet: the helpers only
\* read the grid, so one call per behaviour covers every call.
hasGrid == pc = "analyze" /\ cellIndex = 0 /\ query = NoQuery

callUnchanged ==
  <<heightMap, objectsData, pc, grid, cellIndex, sortedObjects, objectIndex,
    placementMasks, iter, finalCenters, centerIndex, run, firstMasks, gridSizeOption>>

GetNeighbors ==
  /\ hasGrid
  /\ \E i \in DOMAIN grid.cells :
       /\ query' = [op |-> "getNeighbors", cell |-> i]
       /\ result' = getNeighbors(grid, i)
  /\ UNCHANGED callUnchanged

GetCellByIndices ==
  /\ hasGrid
  /\ \E gridX \in -1 .. grid.gridSize, gridY \in -1 .. grid.gridSize :
       /\ query' = [op |-> "getCellByIndices", gridX |-> gridX, gridY |-> gridY]
       /\ result' = getCellByIndices(grid, gridX, gridY)
  /\ UNCHANGED callUnchanged

GetCellAt ==
  /\ hasGrid
  /\ \E x \in AxisPoints(grid.cellWidth, grid.gridSize),
        y \in AxisPoints(grid.cellHeight, grid.gridSize) :
       /\ query' = [op |-> "getCellAt", x |-> x, y |-> y]
       /\ result' = getCellAt(grid, x, y)
  /\ UNCHANGED callUnchanged

GetCellsInRadius ==
  /\ hasGrid
  /\ \E centerX \in AxisCenters(grid.cellWidth, grid.gridSize),
        centerY \in AxisCenters(grid.cellHeight, grid.gridSize),
        radius \in Radii(grid) :
       /\ query' = [op |-> "getCellsInRadius", centerX |-> centerX,
                    centerY |-> centerY, radius |-> radius]
       /\ result' = getCellsInRadius(grid, centerX, centerY, radius)
  /\ UNCHANGED callUnchanged

NextGrid ==
  \/ CreateGrid
  \/ GetNeighbors
  \/ GetCellByIndices
  \/ GetCellAt
  \/ GetCellsInRadius

SpecGrid == InitGrid /\ [][NextGrid]_vars

(***************************************************************************)
(* Runs of one request on a grid of WideGridSize cells a side, which has   *)
(* an interior cell (8 neighbors) and more cells than maxClusters.         *)
(***************************************************************************)
WideGridSize == 3

\* Level ground, and a relief with two water cells (heights below 0.1) side
\* by side, a lowland cell beside them and one away from them, midland and
\* highland cells, a steep highland cell and a sloping midland cell.
WideTerrains ==
  { [base |-> <<50, 50, 50, 50, 50, 50, 50, 50, 50>>,
     relief |-> <<0, 0, 0, 0, 0, 0, 0, 0, 0>>],
    [base |-> <<15, 55, 30, 5, 50, 50, 8, 80, 15>>,
     relief |-> <<0, 45, 24, 0, 0, 0, 0, 0, 0>>] }

\* Cells of 10 x 1 and 10 x 3 pixels: the cluster radius, a tenth of the map
\* width, is WideGridSize pixels, which reaches the cells above and below a
\* center in the first and ends exactly on their centres in the second.
LowCellDims == { <<10, 1>>, <<10, 3>> }

WideHeightMaps ==
  {MakeHeightMapOf(WideGridSize, <<2, 2>>, terrain) : terrain \in WideTerrains}
  \cup {MakeHeightMapOf(WideGridSize, dims,
                        [base |-> <<50>>, relief |-> <<0>>]) : dims \in LowCellDims}

WideRequests ==
  { Request("tree", "oak", Rat(8, 10), Center, "natural"),
    Request("tree", "oak", Half, Center, "natural"),
    Request("tree", "oak", Zero, Center, "natural"),
    Request("building", "house", One, Anchor(Half, Rat(5, 6), One), "clustered"),
    Request("building", "house", Rat(8, 10), Center, "clustered"),
    Request("building", "house", Zero, Center, "clustered"),
    Request("rock", "rock", Half, Terrain("mountains"), "random"),
    Request("rock", "rock", Half, Anchor(Rat(5, 12), Half, Rat(1, 4)), "random"),
    Request("rock", "boulder", Zero, NoLocation, "random"),
    Request("vegetation", "bush", Half, Terrain("hills"), "random"),
    Request("waterObject", "dock", Rat(8, 10), NoLocation, "water"),
    Request("waterObject", "default", Rat(8, 10), NoLocation, "water"),
    Request("waterObject", "boat", Zero, NoLocation, "water"),
    Request("castle", "default", Half, Center, "random") }

InitWide ==
  /\ heightMap \in WideHeightMaps
  /\ objectsData \in {<<r>> : r \in WideRequests}
  /\ Start
  /\ run = 1
  /\ firstMasks = <<>>
  /\ gridSizeOption = WideGridSize
  /\ query = NoQuery
  /\ result = Null

SpecWide == InitWide /\ [][Next]_vars

(***************************************************************************)
(* Which request wrote a mask or a stored suitability.  Masks and          *)
(* suitabilities are keyed by object type, so a later request of the same  *)
(* type replaces what an earlier one wrote.                                *)
(***************************************************************************)
\* How many requests of sortedObjects have had their mask created.
MaskedUpTo ==
  IF pc \in {"suitability", "mask", "natural", "clustered"} THEN objectIndex
  ELSE IF pc \in {"request", "done"} THEN objectIndex - 1
  ELSE 0

\* How many requests of sortedObjects have had calculateObjectSuitability run.
ScoredUpTo ==
  IF pc \in {"mask", "natural", "clustered"} THEN objectIndex
  ELSE IF pc \in {"request", "done", "suitability"} THEN objectIndex - 1
  ELSE 0

\* The last of the first n requests that has type t.
LastOfType(t, n) ==
  sortedObjects[CHOOSE k \in 1 .. n :
                  /\ sortedObjects[k].type = t
                  /\ \A j \in (k + 1) .. n : sortedObjects[j].type # t]

\* The request that created placementMasks[t].
MaskRequest(t) == LastOfType(t, MaskedUpTo)

\* The request that wrote cell.suitability[t].
ScoreRequest(t) == LastOfType(t, ScoredUpTo)

\* The types for which the cells hold a stored suitability.
ScoredTypes == UNION {DOMAIN grid.cells[i].suitability : i \in DOMAIN grid.cells}

(***************************************************************************)
(* Properties.                                                             *)
(***************************************************************************)

\* C1: after calculateObjectSuitability has run for a request (density in
\* [0,1], any terrain, location and subtype), every cell's stored suitability
\* for that type is >= 0 and <= 1, the terrain multiplier 1.5 included.
SuitabilityClamped ==
  \A i \in DOMAIN grid.cells : \A t \in DOMAIN grid.cells[i].suitability :
     /\ RGeq(grid.cells[i].suitability[t], Zero)
     /\ RLeq(grid.cells[i].suitability[t], One)

\* A cell that matches the request's terrain holds 1.5 * density, above 1,
\* for a request whose density is at most 1.
SuitabilityAboveOne ==
  \E i \in DOMAIN grid.cells : \E t \in DOMAIN grid.cells[i].suitability :
     /\ RLeq(ScoreRequest(t).density, One)
     /\ ScoreRequest(t).location.terrain \notin {"null", "undefined"}
     /\ cellHasTerrainFeature(grid.cells[i], ScoreRequest(t).location.terrain)
     /\ RGreater(grid.cells[i].suitability[t], One)

\* C2: a cell whose slope exceeds the definition's maxSlope, or whose height
\* is below minHeight or above maxHeight, has stored suitability exactly 0 and
\* is 0 in the mask of that type, whatever strategy produced the mask.
HardConstraintSoundness ==
  \A i \in DOMAIN grid.cells :
    LET Fails(t) ==
          \/ RGreater(grid.cells[i].properties.slope,
                      objectDefinitions[t].placementRules.maxSlope)
          \/ RLess(grid.cells[i].properties.height,
                   objectDefinitions[t].placementRules.minHeight)
          \/ RGreater(grid.cells[i].properties.height,
                      objectDefinitions[t].placementRules.maxHeight)
    IN  /\ \A t \in DOMAIN grid.cells[i].suitability :
              Fails(t) => grid.cells[i].suitability[t] = Zero
        /\ \A t \in DOMAIN placementMasks :
              Fails(t) => placementMasks[t].cells[i] = 0

\* A finished natural mask in which a cell below minHeight (or above
\* maxHeight) is 0 although all its neighbors, at least 3, are 1: the birth
\* rule had the neighbors it needs.
HardGateHeldAtBirth ==
  /\ pc = "done"
  /\ \E t \in DOMAIN placementMasks : \E i \in DOMAIN grid.cells :
       /\ Distribution(MaskRequest(t)) = "natural"
       /\ \/ RLess(grid.cells[i].properties.height,
                   objectDefinitions[t].placementRules.minHeight)
          \/ RGreater(grid.cells[i].properties.height,
                      objectDefinitions[t].placementRules.maxHeight)
       /\ placementMasks[t].cells[i] = 0
       /\ Len(getNeighbors(grid, i)) >= 3
       /\ \A n \in Elements(getNeighbors(grid, i)) : placementMasks[t].cells[n] = 1

\* C3: two runs of generate on the same height map and the same requests
\* return identical masks for every object type.
RerunSameMasks ==
  (run = 2 /\ pc = "done") => placementMasks = firstMasks

\* The second run has ended with a mask that differs from the first run's.
RerunDiffers ==
  /\ run = 2
  /\ pc = "done"
  /\ \E t \in DOMAIN placementMasks : placementMasks[t].cells # firstMasks[t].cells

\* C4: at every point after a mask is created it has exactly gridSize *
\* gridSize cells, each 0 or 1 (after each natural iteration too).
MaskShape ==
  \A t \in DOMAIN placementMasks :
     /\ DOMAIN placementMasks[t].cells = 0 .. (GridSize * GridSize - 1)
     /\ Cardinality(DOMAIN placementMasks[t].cells) = grid.gridSize * grid.gridSize
     /\ placementMasks[t].grid = grid.gridSize
     /\ \A i \in DOMAIN placementMasks[t].cells : placementMasks[t].cells[i] \in {0, 1}

\* A natural mask after its first iteration replaced the cell array, holding
\* both values.
MaskShapeAfterIteration ==
  /\ pc = "natural"
  /\ iter = 1
  /\ \E i \in DOMAIN maskCells : maskCells[i] = 1
  /\ \E i \in DOMAIN maskCells : maskCells[i] = 0

\* C5: in a mask produced by the natural strategy, every cell that is 1 has
\* a suitability strictly greater than 0.21: neither a seed draw nor a birth
\* activates a cell at or below it.
NaturalActivationBound ==
  \A t \in DOMAIN placementMasks :
     Distribution(MaskRequest(t)) = "natural" =>
        \A i \in DOMAIN placementMasks[t].cells :
           placementMasks[t].cells[i] = 1 =>
              RGreater(grid.cells[i].suitability[t], Pct(21))

\* A finished natural mask with a cell that is 1 although its suitability is
\* not above the seed threshold 0.3: a birth of the refinement.
NaturalBirthBelowSeedThreshold ==
  /\ pc = "done"
  /\ \E t \in DOMAIN placementMasks : \E i \in DOMAIN grid.cells :
       /\ Distribution(MaskRequest(t)) = "natural"
       /\ placementMasks[t].cells[i] = 1
       /\ RLeq(grid.cells[i].suitability[t], suitabilityThreshold)

\* C6: a cell of a clustered request's mask that is 1 is still 1 after every
\* later step of the run, unless the step creates the mask of a new request
\* of the same type: cluster passes only set cells.
ClusteredNeverCleared ==
  [][\A t \in DOMAIN placementMasks :
       ( /\ Distribution(MaskRequest(t)) = "clustered"
         /\ t \in DOMAIN placementMasks'
         /\ ~(pc = "request" /\ objectIndex <= Len(sortedObjects) /\ objectData.type = t) )
       => \A i \in DOMAIN placementMasks[t].cells :
             placementMasks[t].cells[i] = 1 => placementMasks'[t].cells[i] = 1]_vars

\* Before a later cluster center is processed, a cell set by an earlier pass
\* lies in the new cluster with a probability strictly between 0 and 1: its
\* draw can fail.
ClusterOverlapsSetCell ==
  /\ pc = "clustered"
  /\ centerIndex > 1
  /\ centerIndex <= Len(finalCenters)
  /\ \E i \in DOMAIN maskCells :
       /\ maskCells[i] = 1
       /\ CanHit(ClusterProbability(objectData, grid, finalCenters[centerIndex])[i])
       /\ ~MustHit(ClusterProbability(objectData, grid, finalCenters[centerIndex])[i])

\* C7: in a mask produced by the water strategy for a subtype that sets
\* requireDeepWater, no cell with height >= 0.05 is 1.
DeepWaterOnly ==
  \A t \in DOMAIN placementMasks :
     ( /\ Distribution(MaskRequest(t)) = "water"
       /\ "requireDeepWater" \in SubTypeRules(objectDefinitions[t], MaskRequest(t).subType) )
     => \A i \in DOMAIN placementMasks[t].cells :
           placementMasks[t].cells[i] = 1 => RLess(grid.cells[i].properties.height, Pct(5))

\* A finished requireDeepWater mask on a map with exactly one cell below 0.05:
\* that cell is 1, and a cell of shallow water (below 0.1) with a positive
\* suitability is 0.
OnlyDeepCellSet ==
  /\ pc = "done"
  /\ \E t \in DOMAIN placementMasks : \E i, j \in DOMAIN grid.cells :
       /\ Distribution(MaskRequest(t)) = "water"
       /\ "requireDeepWater" \in SubTypeRules(objectDefinitions[t], MaskRequest(t).subType)
       /\ \A k \in DOMAIN grid.cells :
             RLess(grid.cells[k].properties.height, Pct(5)) <=> k = i
       /\ placementMasks[t].cells[i] = 1
       /\ RGeq(grid.cells[j].properties.height, Pct(5))
       /\ RLess(grid.cells[j].properties.height, Pct(10))
       /\ RGreater(grid.cells[j].suitability[t], Zero)
       /\ placementMasks[t].cells[j] = 0

\* C8: for a request with terrain "river" or "lake" and density 0.5, on a
\* grid whose cells all have height >= 0.2, every cell's location factor is
\* 0.1 and every cell's stored suitability is at most 0.05, whatever the
\* subtype's rules.
RiverLakeMismatch ==
  \A t \in ScoredTypes :
     ( /\ ScoreRequest(t).location.terrain \in {"river", "lake"}
       /\ ScoreRequest(t).density = Rat(5, 10)
       /\ \A i \in DOMAIN grid.cells : RGeq(grid.cells[i].properties.height, Pct(20)) )
     => \A i \in DOMAIN grid.cells :
           /\ LocationFactor(ScoreRequest(t), grid, grid.cells[i]) = Rat(1, 10)
           /\ RLeq(grid.cells[i].suitability[t], Pct(5))

\* A finished run of such a request on such a grid in which a cell's stored
\* suitability is exactly 0.05.
RiverLakeBoundAttained ==
  /\ pc = "done"
  /\ \E t \in ScoredTypes :
       /\ ScoreRequest(t).location.terrain \in {"river", "lake"}
       /\ ScoreRequest(t).density = Rat(5, 10)
       /\ \A i \in DOMAIN grid.cells : RGeq(grid.cells[i].properties.height, Pct(20))
       /\ \E i \in DOMAIN grid.cells : RGeq(grid.cells[i].suitability[t], Pct(5))

\* C9: when every height of the map is 0.5, the analysis gives every cell
\* slope 0 and height 0.5, no cell fails a gate of maxSlope 0.3 and height
\* range [0,1], and a type with that rule (rock) gets a suitability above 0
\* in every cell.
UniformTerrainPassesGate ==
  ( /\ \A idx \in DOMAIN heightMap.data :
          RLeq(heightMap.data[idx], Half) /\ RGeq(heightMap.data[idx], Half)
    /\ pc \notin {"createGrid", "analyze"} )
  => \A i \in DOMAIN grid.cells :
        /\ RLeq(grid.cells[i].properties.slope, Zero)
        /\ RGeq(grid.cells[i].properties.slope, Zero)
        /\ RLeq(grid.cells[i].properties.height, Half)
        /\ RGeq(grid.cells[i].properties.height, Half)
        /\ ~RGreater(grid.cells[i].properties.slope, Pct(30))
        /\ ~RLess(grid.cells[i].properties.height, Pct(0))
        /\ ~RGreater(grid.cells[i].properties.height, Pct(100))
        /\ \A t \in DOMAIN grid.cells[i].suitability :
              objectDefinitions[t].placementRules =
                [maxSlope |-> Pct(30), minHeight |-> Pct(0), maxHeight |-> Pct(100)]
              => RGreater(grid.cells[i].suitability[t], Zero)

\* A finished run on the uniform 0.5 map in which a rock request was scored.
UniformTerrainRockScored ==
  /\ pc = "done"
  /\ \A idx \in DOMAIN heightMap.data :
        RLeq(heightMap.data[idx], Half) /\ RGeq(heightMap.data[idx], Half)
  /\ "rock" \in ScoredTypes

\* C10: a request whose type has no definition gets no mask and does not
\* stop the run: the returned masks are those of exactly the defined types
\* that occur in the requests.
UnknownTypeSkipped ==
  /\ \A t \in DOMAIN placementMasks : HasDefinition(t)
  /\ pc = "done" =>
       DOMAIN placementMasks =
         {objectsData[k].type : k \in DOMAIN objectsData} \cap DOMAIN objectDefinitions

\* A finished run whose request list names an unknown type before a defined
\* one, and the defined one's mask has a cell set.
UnknownTypeBeforeProcessedOne ==
  /\ pc = "done"
  /\ \E k, j \in DOMAIN objectsData :
       /\ k < j
       /\ ~HasDefinition(objectsData[k].type)
       /\ HasDefinition(objectsData[j].type)
       /\ \E i \in DOMAIN grid.cells : placementMasks[objectsData[j].type].cells[i] = 1

\* The request lists that are permutations of objects.
PermutationsOf(objects) ==
  {[k \in 1 .. Len(objects) |-> objects[f[k]]] :
     f \in {h \in [1 .. Len(objects) -> 1 .. Len(objects)] :
              \A a, b \in 1 .. Len(objects) : h[a] = h[b] => a = b}}

\* C11: the order of the requests has no effect on the output: every
\* permutation of the request list (two requests of one type included) gives
\* generatePlacementMasks the same set of results it can return.
OrderHasNoEffect ==
  pc = "sort" =>
     \A p \in PermutationsOf(objectsData) :
        generatePlacementMasks(p, grid) = generatePlacementMasks(objectsData, grid)

\* The run of a list of two requests of one type has returned a result that
\* generatePlacementMasks cannot return for the list in the other order.
ResultImpossibleInOtherOrder ==
  /\ pc = "done"
  /\ Len(objectsData) = 2
  /\ objectsData[1].type = objectsData[2].type
  /\ placementMasks \in generatePlacementMasks(objectsData, grid)
  /\ placementMasks \notin generatePlacementMasks(<<objectsData[2], objectsData[1]>>, grid)

\* C12: a step that processes a request of type A leaves unchanged, for every
\* other type B, the stored suitability of every cell and the mask of B.
RequestWritesOwnTypeOnly ==
  [][(pc \in {"request", "suitability", "mask", "natural", "clustered"}
      /\ objectIndex <= Len(sortedObjects))
     => \A B \in (DOMAIN placementMasks \cup ScoredTypes) \ {objectData.type} :
          /\ B \in DOMAIN placementMasks =>
               B \in DOMAIN placementMasks' /\ placementMasks'[B] = placementMasks[B]
          /\ \A i \in DOMAIN grid.cells :
               B \in DOMAIN grid.cells[i].suitability =>
                 /\ B \in DOMAIN grid'.cells[i].suitability
                 /\ grid'.cells[i].suitability[B] = grid.cells[i].suitability[B]]_vars

\* The second request, of another type than the first, has been scored and
\* has cells set in its mask, while the first type's mask has a cell set and
\* its suitability is above 0 in some cell.
SecondTypeProcessedBesideFirst ==
  /\ pc = "request"
  /\ objectIndex = 3
  /\ sortedObjects[1].type # sortedObjects[2].type
  /\ {sortedObjects[1].type, sortedObjects[2].type} \subseteq DOMAIN placementMasks
  /\ \E i \in DOMAIN grid.cells :
       /\ placementMasks[sortedObjects[1].type].cells[i] = 1
       /\ RGreater(grid.cells[i].suitability[sortedObjects[1].type], Zero)
  /\ \E i \in DOMAIN grid.cells : placementMasks[sortedObjects[2].type].cells[i] = 1

\* C13: when the configured grid size is zero or negative, the pipeline ends
\* in a configuration error before any cell is analyzed: no terrain property
\* is written, no mask is produced and no result is returned.
BadGridSizeIsFatal ==
  gridSizeOption <= 0 =>
     /\ pc \notin {"suitability", "mask", "natural", "clustered", "done"}
     /\ placementMasks = <<>>
     /\ \A i \in DOMAIN grid.cells : ~grid.cells[i].properties.analyzed

\* The run with a negative grid size has returned a mask (of no cells).
NegativeGridSizeReturnsMask ==
  /\ gridSizeOption < 0
  /\ pc = "done"
  /\ \E t \in DOMAIN placementMasks : placementMasks[t].cells = <<>>

\* The height map holds a value that is not a number of [0, 1].
HasBadSample ==
  \E idx \in DOMAIN heightMap.data :
     \/ IsNaN(heightMap.data[idx])
     \/ RLess(heightMap.data[idx], Zero)
     \/ RGreater(heightMap.data[idx], One)

\* C14: when the height source gives a non-finite or out-of-[0,1] value for a
\* sample, the mask of a request that needs the sample is absent from the
\* result and is at no point present partially written.  Every request
\* scores every cell, and the cells' heights are means over all samples, so
\* every request needs every sample: no mask is ever present.
BadSampleDropsMask ==
  HasBadSample => placementMasks = <<>>

\* The run on a height map with a bad sample has returned a mask, with a
\* cell set in it.
BadSampleMaskReturned ==
  /\ HasBadSample
  /\ pc = "done"
  /\ \E t \in DOMAIN placementMasks : \E i \in DOMAIN placementMasks[t].cells :
       placementMasks[t].cells[i] = 1

(***************************************************************************)
(* C15: for every cell of a gridSize x gridSize grid, getNeighbors returns *)
(* exactly the cells (x+dx, y+dy), dx and dy in {-1,0,1} and not both 0,   *)
(* that lie inside the grid: none out of bounds, none from the opposite    *)
(* edge, none twice and never the cell itself, so that a corner has 3, an  *)
(* edge cell 5 and an interior cell 8 of them when gridSize >= 3.          *)
(***************************************************************************)
\* The cells one step away from cell i in a grid of n x n, by coordinates.
Adjacent(n, i) ==
  {j \in 0 .. (n * n - 1) :
     /\ j # i
     /\ Abs((j % n) - (i % n)) <= 1
     /\ Abs((j \div n) - (i \div n)) <= 1}

\* How many of cell i's two coordinates lie on the border of the grid.
BorderAxes(n, i) ==
  (IF (i % n) \in {0, n - 1} THEN 1 ELSE 0)
  + (IF (i \div n) \in {0, n - 1} THEN 1 ELSE 0)

NeighborsAreMooreNeighborhood ==
  query.op = "getNeighbors" =>
    /\ Elements(result) = Adjacent(grid.gridSize, query.cell)
    /\ Len(result) = Cardinality(Elements(result))
    /\ query.cell \notin Elements(result)
    /\ grid.gridSize >= 3 =>
         Len(result) = CASE BorderAxes(grid.gridSize, query.cell) = 2 -> 3
                         [] BorderAxes(grid.gridSize, query.cell) = 1 -> 5
                         [] OTHER -> 8

\* getNeighbors has been called on the last cell of a row that has a row
\* below it, where an index taken modulo nothing would reach the next row.
NeighborsOfRowEnd ==
  /\ query.op = "getNeighbors"
  /\ grid.gridSize >= 3
  /\ query.cell % grid.gridSize = grid.gridSize - 1
  /\ query.cell \div grid.gridSize = 1
  /\ Len(result) = 5

(***************************************************************************)
(* C16: getCellsInRadius(centerX, centerY, radius) returns exactly the     *)
(* cells whose centre is at Euclidean distance <= radius from the point,   *)
(* whatever the cell width and height (the box it searches leaves out no   *)
(* cell that passes the distance test), and the empty list for a negative  *)
(* radius.  The distance is compared by its square, exactly.               *)
(***************************************************************************)
\* Cell j's centre lies within radius of (centerX, centerY).
CenterWithin(g, j, centerX, centerY, radius) ==
  /\ RGeq(radius, Zero)
  /\ RLeq(RAdd(RSquare(RSub(RMul(Rat(2 * (j % g.gridSize) + 1, 2), g.cellWidth), centerX)),
               RSquare(RSub(RMul(Rat(2 * (j \div g.gridSize) + 1, 2), g.cellHeight), centerY))),
          RSquare(radius))

CellsInRadiusExact ==
  query.op = "getCellsInRadius" =>
    /\ Elements(result) =
         {j \in DOMAIN grid.cells :
            CenterWithin(grid, j, query.centerX, query.centerY, query.radius)}
    /\ RLess(query.radius, Zero) => result = <<>>

\* On a grid of wide, low cells a cell was found more rows away from the
\* centre's row than the radius measures in cell widths.
CellFoundBeyondWidthBox ==
  /\ query.op = "getCellsInRadius"
  /\ RLess(grid.cellHeight, grid.cellWidth)
  /\ \E k \in 1 .. Len(result) :
       Abs((result[k] \div grid.gridSize) - RFloor(RDiv(query.centerY, grid.cellHeight)))
         > RCeil(RDiv(query.radius, grid.cellWidth))

(***************************************************************************)
(* C17: getCellAt(x, y) returns the cell whose bounds contain the point,   *)
(* the one with gridX = floor(x / cellWidth), gridY = floor(y /            *)
(* cellHeight) stored at index gridY * gridSize + gridX, when the point is *)
(* inside the map, and null for every point outside it: on the right or    *)
(* bottom edge, beyond them, or at a negative coordinate.                  *)
(***************************************************************************)
\* The point (x, y) lies inside the map of grid g.
InsideMap(g, x, y) ==
  /\ RLeq(Zero, x) /\ RLess(x, Rat(g.width, 1))
  /\ RLeq(Zero, y) /\ RLess(y, Rat(g.height, 1))

\* Cell c's bounds contain the point (x, y).
CellContains(c, x, y) ==
  /\ RLeq(c.x, x) /\ RLess(x, RAdd(c.x, c.width))
  /\ RLeq(c.y, y) /\ RLess(y, RAdd(c.y, c.height))

CellAtContainsPoint ==
  query.op = "getCellAt" =>
    IF InsideMap(grid, query.x, query.y)
    THEN /\ result \in DOMAIN grid.cells
         /\ CellContains(grid.cells[result], query.x, query.y)
         /\ grid.cells[result].gridX = RFloor(RDiv(query.x, grid.cellWidth))
         /\ grid.cells[result].gridY = RFloor(RDiv(query.y, grid.cellHeight))
         /\ result = RFloor(RDiv(query.y, grid.cellHeight)) * grid.gridSize
                       + RFloor(RDiv(query.x, grid.cellWidth))
    ELSE result = Null

\* getCellAt has been asked for a point on the right map edge, in a row that
\* has a row below it, and returned null.
RightEdgeIsOutside ==
  /\ query.op = "getCellAt"
  /\ query.x = Rat(grid.width, 1)
  /\ RLeq(Zero, query.y)
  /\ RLess(query.y, grid.cellHeight)
  /\ grid.gridSize >= 2
  /\ result = Null

(***************************************************************************)
(* C18: once terrain analysis has finished, no later step (sorting,        *)
(* scoring, any of the four strategies, for any number of requests)        *)
(* changes a cell's terrain properties: height, min and max height, slope, *)
(* directional slopes and terrain features stay as the analyzer wrote      *)
(* them.                                                                   *)
(***************************************************************************)
TerrainPropertiesFrozen ==
  [][pc \notin {"createGrid", "analyze"} =>
       /\ DOMAIN grid'.cells = DOMAIN grid.cells
       /\ \A i \in DOMAIN grid.cells :
            grid'.cells[i].properties = grid.cells[i].properties]_vars

\* Two requests of different types have been scored and masked on analyzed
\* cells, one of them steeper than the rule of a request allows.
TwoRequestsDoneOnAnalyzedCells ==
  /\ pc = "done"
  /\ Cardinality(DOMAIN placementMasks) = 2
  /\ \A i \in DOMAIN grid.cells :
       /\ grid.cells[i].properties.analyzed
       /\ DOMAIN grid.cells[i].suitability = DOMAIN placementMasks
  /\ \E i \in DOMAIN grid.cells, t \in DOMAIN placementMasks :
       RGreater(grid.cells[i].properties.slope,
                objectDefinitions[t].placementRules.maxSlope)

(***************************************************************************)
(* C19: the strategy of a request is the distribution the request names;   *)
(* when it names none, the defaultDistribution of its type in the rule     *)
(* table; "random" only when that is missing too.  Stated on the step that *)
(* leaves createPlacementMask's switch: it is a step of the strategy so    *)
(* chosen.                                                                 *)
(***************************************************************************)
StrategyFallsBackToTypeDefault ==
  [][pc = "mask" =>
       LET default == objectDefinitions[objectData.type].defaultDistribution
           wanted == IF objectData.distribution # "undefined" THEN objectData.distribution
                     ELSE IF default # "undefined" THEN default
                     ELSE "random"
       IN  CASE wanted = "natural" ->
                  /\ pc' = "natural"
                  /\ \E m \in DrawnMasks(maskCells, NaturalSeedProbability(objectData, grid)) :
                       placementMasks' = WithCells(m)
             [] wanted = "clustered" ->
                  /\ finalCenters' = FinalCenters(objectData, grid)
                  /\ placementMasks' = placementMasks
             [] wanted = "water" ->
                  /\ pc' = "request"
                  /\ \E m \in DrawnMasks(maskCells, WaterProbability(objectData, grid)) :
                       placementMasks' = WithCells(m)
             [] OTHER ->
                  /\ pc' = "request"
                  /\ \E m \in DrawnMasks(maskCells, RandomProbability(objectData, grid)) :
                       placementMasks' = WithCells(m)]_vars

\* A request that names no distribution, of a type whose default is
\* "natural", has had its mask returned with a cell set and without one turn
\* of the natural strategy's loop.
DefaultNaturalRequestDrawnAtRandom ==
  /\ pc = "done"
  /\ Len(objectsData) = 1
  /\ objectsData[1].distribution = "undefined"
  /\ HasDefinition(objectsData[1].type)
  /\ objectDefinitions[objectsData[1].type].defaultDistribution = "natural"
  /\ iter = 0
  /\ \E i \in DOMAIN grid.cells : placementMasks[objectsData[1].type].cells[i] = 1

(***************************************************************************)
(* C20: after terrain analysis, at every grid position, isPeak is true     *)
(* exactly when the cell's mean height is strictly greater than the mean   *)
(* height of every neighbor it has, and isValley exactly when it is        *)
(* strictly lower than every one of them, the neighbors to the south and   *)
(* east, analyzed later in row-major order, included.                      *)
(***************************************************************************)
PeaksAndValleysFromFinalHeights ==
  pc \notin {"createGrid", "analyze"} =>
    \A i \in DOMAIN grid.cells :
       LET height == grid.cells[i].properties.height
           neighbors == Elements(getNeighbors(grid, i))
           features == grid.cells[i].properties.terrainFeatures
       IN  /\ features.isPeak <=>
                \A n \in neighbors : RGreater(height, grid.cells[n].properties.height)
           /\ features.isValley <=>
                \A n \in neighbors : RLess(height, grid.cells[n].properties.height)

\* The analysis is over and the first cell, lower than every neighbor it
\* has, is not marked as a valley.
LowestFirstCellNotValley ==
  /\ pc \notin {"createGrid", "analyze"}
  /\ 0 \in DOMAIN grid.cells
  /\ getNeighbors(grid, 0) # <<>>
  /\ \A n \in Elements(getNeighbors(grid, 0)) :
       RLess(grid.cells[0].properties.height, grid.cells[n].properties.height)
  /\ ~grid.cells[0].properties.terrainFeatures.isValley

(***************************************************************************)
(* C21: the natural strategy runs exactly 2 refinement iterations, each    *)
(* computing the whole next generation from the previous one only: a cell  *)
(* active before is active after iff its count of previously active Moore  *)
(* neighbors is in [2,6]; a cell inactive before is active after iff that  *)
(* count is in [3,4] and its suitability is > 0.21.  The neighbor counts   *)
(* are taken by grid coordinates on the mask as it stood before the step.  *)
(***************************************************************************)
NaturalGenerationFromSnapshot ==
  [][pc = "natural" =>
       LET type == objectData.type
           previous == placementMasks[type].cells
           next == placementMasks'[type].cells
           count(i) == Cardinality({j \in Adjacent(grid.gridSize, i) : previous[j] = 1})
       IN  /\ DOMAIN next = DOMAIN previous
           /\ \A i \in DOMAIN previous :
                next[i] = 1 <=>
                  IF previous[i] = 1
                  THEN count(i) >= 2 /\ count(i) <= 6
                  ELSE /\ count(i) >= 3 /\ count(i) <= 4
                       /\ RGreater(grid.cells[i].suitability[type], Rat(21, 100))
           /\ \A i \in DOMAIN next : next[i] \in {0, 1}
           /\ iter' = iter + 1
           /\ pc' = "natural" <=> iter' < 2
           /\ pc' # "natural" => iter' = 2 /\ pc' = "request"]_vars

\* On a grid of 3 x 3 the first iteration has left the eight border cells
\* active and the centre cell, which has eight active neighbors, inactive.
CrowdedCentreInactive ==
  /\ pc = "natural"
  /\ iter = 1
  /\ grid.gridSize = 3
  /\ \A i \in DOMAIN grid.cells :
       placementMasks[objectData.type].cells[i] = IF i = 4 THEN 0 ELSE 1

(***************************************************************************)
(* C22: for a request with terrain affinity "mountains", every cell that   *)
(* passes the hard gate, is of elevation class highland and has slope >    *)
(* 0.2 gets the location multiplier 1.5 and every other passing cell 0.1;  *)
(* likewise for "hills" with midland and slope > 0.1.  With a subtype      *)
(* without rules the stored suitability is that multiplier times the       *)
(* density.                                                                *)
(***************************************************************************)
MountainsAndHillsMatchBySlope ==
  \A t \in ScoredTypes : \A i \in DOMAIN grid.cells :
     LET request == ScoreRequest(t)
         cell == grid.cells[i]
         matches ==
           \/ /\ request.location.terrain = "mountains"
              /\ cell.properties.terrainFeatures.elevationClass = "highland"
              /\ RGreater(cell.properties.slope, Pct(20))
           \/ /\ request.location.terrain = "hills"
              /\ cell.properties.terrainFeatures.elevationClass = "midland"
              /\ RGreater(cell.properties.slope, Pct(10))
         multiplier == IF matches THEN Rat(15, 10) ELSE Rat(1, 10)
     IN  ( /\ request.location.terrain \in {"mountains", "hills"}
           /\ t \in DOMAIN cell.suitability
           /\ ~Rejected(objectDefinitions[t].placementRules, cell) )
         => /\ LocationFactor(request, grid, cell) = multiplier
            /\ SubTypeRules(objectDefinitions[t], request.subType) = {}
                 => cell.suitability[t] = RMul(multiplier, request.density)

\* A "mountains" request has been scored on a grid with a highland cell of
\* slope > 0.2 that passes the gate, and the cell's score is a tenth of the
\* density.
SteepHighlandCellPenalized ==
  \E t \in ScoredTypes : \E i \in DOMAIN grid.cells :
     /\ ScoreRequest(t).location.terrain = "mountains"
     /\ t \in DOMAIN grid.cells[i].suitability
     /\ ~Rejected(objectDefinitions[t].placementRules, grid.cells[i])
     /\ grid.cells[i].properties.terrainFeatures.elevationClass = "highland"
     /\ RGreater(grid.cells[i].properties.slope, Pct(20))
     /\ grid.cells[i].suitability[t] = RMul(Rat(1, 10), ScoreRequest(t).density)

(***************************************************************************)
(* C23: for a request with an anchor point and a positive radius, and no   *)
(* terrain tag, the location multiplier of a cell that passes the hard     *)
(* gate is 1 - 0.5 * d / radius when the normalized distance d from the    *)
(* cell's centre to the anchor is <= radius (in [0.5, 1], 1 at the anchor, *)
(* 0.5 at the edge) and 0.2 when d > radius.  d is compared by its exact   *)
(* square; the multiplier is read back as a distance e = 2 * radius *      *)
(* (1 - multiplier), which must be d rounded down to 1 / SqrtScale; the   *)
(* value at the edge is tested where the square root is exact.             *)
(***************************************************************************)
\* The square of the normalized distance from cell's centre to the anchor.
SquaredDistanceToAnchor(g, cell, location) ==
  RAdd(RSquare(RSub(location.x, RDiv(cell.centerX, Rat(g.width, 1)))),
       RSquare(RSub(location.y, RDiv(cell.centerY, Rat(g.height, 1)))))

AnchorFalloff ==
  \A t \in ScoredTypes : \A i \in DOMAIN grid.cells :
     LET request == ScoreRequest(t)
         location == request.location
         cell == grid.cells[i]
         d2 == SquaredDistanceToAnchor(grid, cell, location)
         multiplier == LocationFactor(request, grid, cell)
         e == RMul(RMul(Rat(2, 1), location.radius), RSub(One, multiplier))
     IN  ( /\ location.terrain = "null"
           /\ RGreater(location.radius, Zero)
           /\ t \in DOMAIN cell.suitability
           /\ ~Rejected(objectDefinitions[t].placementRules, cell) )
         => /\ IF RLeq(d2, RSquare(location.radius))
               THEN /\ RGeq(multiplier, Half) /\ RLeq(multiplier, One)
                    /\ RLeq(RSquare(e), d2)
                    /\ RLess(d2, RSquare(RAdd(e, Rat(1, SqrtScale))))
                    /\ d2 = Zero => multiplier = One
                    /\ (d2 = RSquare(location.radius) /\ RSquare(Sqrt(d2)) = d2)
                         => multiplier = Half
               ELSE multiplier = Rat(2, 10)
            /\ SubTypeRules(objectDefinitions[t], request.subType) = {}
                 => cell.suitability[t] = RMul(multiplier, request.density)

\* An anchored request has been scored on a grid with one passing cell
\* exactly on the edge of the radius, scored half the density, one inside
\* it and one outside, scored a fifth of the density.
CellsOnEdgeInsideAndOutside ==
  \E t \in ScoredTypes :
     LET request == ScoreRequest(t)
         r2 == RSquare(request.location.radius)
         passing == {i \in DOMAIN grid.cells :
                       /\ t \in DOMAIN grid.cells[i].suitability
                       /\ ~Rejected(objectDefinitions[t].placementRules, grid.cells[i])}
         d2(i) == SquaredDistanceToAnchor(grid, grid.cells[i], request.location)
     IN  /\ request.location.terrain = "null"
         /\ RGreater(request.location.radius, Zero)
         /\ SubTypeRules(objectDefinitions[t], request.subType) = {}
         /\ \E i \in passing :
              d2(i) = r2 /\ grid.cells[i].suitability[t] = RMul(Half, request.density)
         /\ \E i \in passing :
              /\ RLess(d2(i), r2)
              /\ RGreater(grid.cells[i].suitability[t], RMul(Half, request.density))
         /\ \E i \in passing :
              RGreater(d2(i), r2) /\ grid.cells[i].suitability[t] = RMul(Rat(2, 10), request.density)

(***************************************************************************)
(* C24: in calculateDirectionalSlopes the height difference to an existing *)
(* neighbor is divided by the cell width for north, south, east and west   *)
(* and by cell width * sqrt(2) for the four diagonal directions; the slope *)
(* of a direction without a neighbor stays 0.  The diagonal case is stated *)
(* by squares: slope^2 * 2 * width^2 = difference^2, with the sign of the  *)
(* difference.                                                             *)
(***************************************************************************)
\* The height at the centre of cell i's neighbor in the direction, minus the
\* height at cell i's own centre; the neighbor is at index n.
CenterHeightDifference(i, n) ==
  RSub(getHeight(heightMap, grid.cells[n].centerX, grid.cells[n].centerY),
       getHeight(heightMap, grid.cells[i].centerX, grid.cells[i].centerY))

DiagonalSlopesOverDiagonal ==
  \A i \in DOMAIN grid.cells : \A direction \in DOMAIN directions :
     LET cell == grid.cells[i]
         n == getCellByIndices(grid, cell.gridX + directions[direction][1],
                                     cell.gridY + directions[direction][2])
         slope == cell.properties.slopes[direction]
     IN  cell.properties.analyzed =>
           IF n = Null THEN slope = Zero
           ELSE IF direction \in {"north", "south", "east", "west"}
           THEN slope = RDiv(CenterHeightDifference(i, n), cell.width)
           ELSE /\ RMul(RSquare(slope), RMul(Rat(2, 1), RSquare(cell.width)))
                     = RSquare(CenterHeightDifference(i, n))
                /\ RLess(slope, Zero) <=> RLess(CenterHeightDifference(i, n), Zero)

\* An analyzed cell has a diagonal neighbor at another height, and its slope
\* in that direction is the difference divided by the cell width.
DiagonalSlopeOverWidth ==
  \E i \in DOMAIN grid.cells :
     \E direction \in {"northeast", "northwest", "southeast", "southwest"} :
        LET cell == grid.cells[i]
            n == getCellByIndices(grid, cell.gridX + directions[direction][1],
                                        cell.gridY + directions[direction][2])
        IN  /\ cell.properties.analyzed
            /\ n # Null
            /\ CenterHeightDifference(i, n) # Zero
            /\ cell.properties.slopes[direction] = RDiv(CenterHeightDifference(i, n), cell.width)

(***************************************************************************)
(* C25: the clustered strategy uses at most 5 cluster centers, each a cell *)
(* with suitability strictly above 0.6, and they are the highest such      *)
(* cells: no cell above 0.6 that was not chosen has a suitability strictly *)
(* greater than that of a chosen center, and a cell above 0.6 is left out  *)
(* only when 5 were chosen.                                                *)
(***************************************************************************)
\* The cells with a suitability above 0.6 for the request being processed.
CenterCandidates ==
  {i \in DOMAIN grid.cells :
     /\ objectData.type \in DOMAIN grid.cells[i].suitability
     /\ RGreater(grid.cells[i].suitability[objectData.type], Rat(6, 10))}

CentersAreTopFive ==
  pc = "clustered" =>
    /\ Len(finalCenters) <= 5
    /\ Cardinality(Elements(finalCenters)) = Len(finalCenters)
    /\ Elements(finalCenters) \subseteq CenterCandidates
    /\ Len(finalCenters) < 5 => Elements(finalCenters) = CenterCandidates
    /\ \A j \in CenterCandidates \ Elements(finalCenters) :
         \A c \in Elements(finalCenters) :
            ~RGreater(grid.cells[j].suitability[objectData.type],
                      grid.cells[c].suitability[objectData.type])

\* Five centers were chosen among more candidates, one of which, earlier in
\* grid order than a chosen center, was left out for its lower suitability.
LowerCandidateLeftOut ==
  /\ pc = "clustered"
  /\ Len(finalCenters) = 5
  /\ \E j \in CenterCandidates \ Elements(finalCenters) :
       \E c \in Elements(finalCenters) :
          /\ j < c
          /\ RLess(grid.cells[j].suitability[objectData.type],
                   grid.cells[c].suitability[objectData.type])

(***************************************************************************)
(* C26: under the water strategy with a subtype that has requireWaterEdge  *)
(* and not requireDeepWater, a cell can be set in the mask only if its own *)
(* height is >= 0.1 and a Moore neighbor of it has height < 0.1; with      *)
(* neither flag, only if its height is < 0.1.  Every other cell is 0       *)
(* whatever the draws.                                                     *)
(***************************************************************************)
WaterEdgeAndPlainWaterOnly ==
  \A t \in DOMAIN placementMasks : \A i \in DOMAIN placementMasks[t].cells :
     LET request == MaskRequest(t)
         rules == SubTypeRules(objectDefinitions[t], request.subType)
         height == grid.cells[i].properties.height
         besideWater == \E n \in Adjacent(grid.gridSize, i) :
                           RLess(grid.cells[n].properties.height, Pct(10))
     IN  (request.distribution = "water" /\ placementMasks[t].cells[i] = 1) =>
           /\ ("requireWaterEdge" \in rules /\ "requireDeepWater" \notin rules)
                => (RGeq(height, Pct(10)) /\ besideWater)
           /\ ("requireWaterEdge" \notin rules /\ "requireDeepWater" \notin rules)
                => RLess(height, Pct(10))

\* The run of a requireWaterEdge request has finished with the shore cell set
\* and, left at 0, a water cell and a cell out of the water, away from it,
\* both with a suitability above 0.
ShoreCellSetOthersLeft ==
  /\ pc = "done"
  /\ \E t \in DOMAIN placementMasks :
       LET request == MaskRequest(t)
           rules == SubTypeRules(objectDefinitions[t], request.subType)
           cells == placementMasks[t].cells
           water(i) == RLess(grid.cells[i].properties.height, Pct(10))
           scored(i) == RGreater(grid.cells[i].suitability[t], Zero)
       IN  /\ request.distribution = "water"
           /\ "requireWaterEdge" \in rules
           /\ \E i \in DOMAIN cells : cells[i] = 1 /\ ~water(i)
           /\ \E i \in DOMAIN cells : cells[i] = 0 /\ water(i) /\ scored(i)
           /\ \E i \in DOMAIN cells :
                /\ cells[i] = 0 /\ ~water(i) /\ scored(i)
                /\ \A n \in Adjacent(grid.gridSize, i) : ~water(n)

(***************************************************************************)
(* C27: recognized requests are processed in ascending order of their      *)
(* rule-table priority, whatever the order of the input list: whenever a   *)
(* request's type has a mask, every request of a type with a strictly      *)
(* lower priority number has had its suitability stored and its mask       *)
(* completed.                                                              *)
(***************************************************************************)
\* A request is being scored or masked.
InRequest == pc \in {"suitability", "mask", "natural", "clustered"}

ProcessedInPriorityOrder ==
  \A a \in 1 .. Len(objectsData), b \in 1 .. Len(objectsData) :
     LET first == objectsData[a]
         second == objectsData[b]
     IN  ( /\ HasDefinition(first.type) /\ HasDefinition(second.type)
           /\ objectDefinitions[first.type].priority
                < objectDefinitions[second.type].priority
           /\ second.type \in DOMAIN placementMasks )
         => /\ first.type \in DOMAIN placementMasks
            /\ \A i \in DOMAIN grid.cells : first.type \in DOMAIN grid.cells[i].suitability
            /\ ~(InRequest /\ objectData.type = first.type)

\* The second request of the input list, of a lower priority number than the
\* first, has its mask completed and the first has none yet.
LaterRequestProcessedFirst ==
  /\ Len(objectsData) = 2
  /\ HasDefinition(objectsData[1].type) /\ HasDefinition(objectsData[2].type)
  /\ objectDefinitions[objectsData[2].type].priority
       < objectDefinitions[objectsData[1].type].priority
  /\ pc = "request"
  /\ objectsData[2].type \in DOMAIN placementMasks
  /\ objectsData[1].type \notin DOMAIN placementMasks

(***************************************************************************)
(* C28: no suitability is stored and no mask is created until the grid has *)
(* been built and the terrain properties (height, slope, features) written *)
(* for every cell of the grid; the grid is built once and each cell is     *)
(* analyzed once per generation run: the cells are created by the step     *)
(* that leaves "createGrid" only, and a cell's properties are written only *)
(* by the analysis, on a cell that was not analyzed yet.                   *)
(***************************************************************************)
\* The grid is built and every one of its cells holds analyzed properties.
TerrainComplete ==
  /\ grid # NoGrid
  /\ \A i \in DOMAIN grid.cells :
       /\ grid.cells[i].properties.analyzed
       /\ ~IsNaN(grid.cells[i].properties.height)
       /\ ~IsNaN(grid.cells[i].properties.slope)
       /\ grid.cells[i].properties.terrainFeatures # <<>>

TerrainBeforeRequests ==
  /\ []( ( \/ placementMasks # <<>>
           \/ ScoredTypes # {}
           \/ pc \notin {"createGrid", "analyze"} )
         => TerrainComplete )
  /\ [][ /\ pc # "createGrid" =>
             /\ DOMAIN grid'.cells = DOMAIN grid.cells
             /\ grid'.gridSize = grid.gridSize
        /\ \A i \in (DOMAIN grid.cells) \cap (DOMAIN grid'.cells) :
             grid'.cells[i].properties # grid.cells[i].properties
               => /\ pc = "analyze"
                  /\ ~grid.cells[i].properties.analyzed
                  /\ grid'.cells[i].properties.analyzed ]_vars

\* The first request's mask has just been created: every cell is analyzed
\* and none holds a suitability yet.
FirstMaskOnAnalyzedGrid ==
  /\ pc = "suitability"
  /\ objectIndex = 1
  /\ placementMasks # <<>>
  /\ TerrainComplete
  /\ cellIndex = Cardinality(DOMAIN grid.cells)
  /\ ScoredTypes = {}

(***************************************************************************)
(* C29: a request with density 0 yields suitability 0 in every cell and    *)
(* therefore a mask of zeros under each of the four strategies, whatever   *)
(* the terrain and the subtype's rules.                                    *)
(***************************************************************************)
ZeroDensityZeroMask ==
  /\ \A t \in ScoredTypes :
       ScoreRequest(t).density = Zero =>
         \A i \in DOMAIN grid.cells : grid.cells[i].suitability[t] = Zero
  /\ \A t \in DOMAIN placementMasks :
       MaskRequest(t).density = Zero =>
         \A i \in DOMAIN placementMasks[t].cells : placementMasks[t].cells[i] = 0

\* The run of a request of density 0 has finished on a grid where a cell
\* passes the request's hard gate with a location and subtype factor above
\* 0, and the mask holds no 1.
ZeroDensityRunOverPassingCell ==
  /\ pc = "done"
  /\ \E t \in DOMAIN placementMasks :
       /\ MaskRequest(t).density = Zero
       /\ \A i \in DOMAIN placementMasks[t].cells : placementMasks[t].cells[i] = 0
       /\ \E i \in DOMAIN grid.cells :
            /\ ~Rejected(objectDefinitions[t].placementRules, grid.cells[i])
            /\ RGreater(RMul(LocationFactor(MaskRequest(t), grid, grid.cells[i]),
                             SubTypeFactor(SubTypeRules(objectDefinitions[t],
                                                        MaskRequest(t).subType),
                                           objectDefinitions[t].placementRules, grid, i)),
                        Zero)

(***************************************************************************)
(* C30: in the mask of a clustered request every cell set to 1 has a       *)
(* suitability > 0 and its centre lies strictly closer than the cluster    *)
(* radius, 10% of the map width, to the centre of a selected cluster       *)
(* center; when no cell has a suitability above 0.6 the mask is all zeros. *)
(* Stated for runs of one request, where finalCenters are the centers of   *)
(* the one clustered mask; distances are compared by their squares.        *)
(***************************************************************************)
\* The square of the distance, in map units, between the centres of cells
\* i and j.
SquaredCentreDistance(i, j) ==
  RAdd(RSquare(RSub(grid.cells[i].centerX, grid.cells[j].centerX)),
       RSquare(RSub(grid.cells[i].centerY, grid.cells[j].centerY)))

ClusteredCellsNearCenters ==
  \A t \in DOMAIN placementMasks :
     LET request == MaskRequest(t)
         cells == placementMasks[t].cells
         radius == RDiv(Rat(grid.width, 1), Rat(10, 1))
     IN  (Len(sortedObjects) = 1 /\ request.distribution = "clustered") =>
           /\ \A i \in DOMAIN cells :
                cells[i] = 1 =>
                  /\ t \in DOMAIN grid.cells[i].suitability
                  /\ RGreater(grid.cells[i].suitability[t], Zero)
                  /\ \E c \in Elements(finalCenters) :
                       RLess(SquaredCentreDistance(i, c), RSquare(radius))
           /\ (\A i \in DOMAIN grid.cells :
                  t \in DOMAIN grid.cells[i].suitability
                    => ~RGreater(grid.cells[i].suitability[t], Rat(6, 10)))
                => \A i \in DOMAIN cells : cells[i] = 0

\* The run of one clustered request has finished with a cell set that is not
\* a cluster center itself.
CellSetBesideCenter ==
  /\ pc = "done"
  /\ Len(sortedObjects) = 1
  /\ sortedObjects[1].distribution = "clustered"
  /\ \E t \in DOMAIN placementMasks : \E i \in DOMAIN placementMasks[t].cells :
       /\ placementMasks[t].cells[i] = 1
       /\ i \notin Elements(finalCenters)

=============================================================================
